---- MODULE Spec2Model ----
(***************************************************************************)
(* znote: an in-process typed publish/subscribe bus.                       *)
(* Model of src/src/znote/dispatch.py (Dispatcher, Emission) and of the    *)
(* entry points of src/src/znote/core.py (zNote.emit, subscribe).          *)
(*                                                                         *)
(* The registry is the class attribute Dispatcher._subscriptions.  One     *)
(* call of Dispatcher.emit runs its whole traversal (lines 145-172)        *)
(* without an await, so the traversal is one step of the event loop; the   *)
(* only suspension point is `await asyncio.gather(...)` on line 175.       *)
(* emit is that step.  emit_begin, emit_visit and emit_join are the same   *)
(* lines one iteration of the inner loop at a time, for the properties     *)
(* about what the code of a filter or a handler may do between two         *)
(* iterations.                                                             *)
(***************************************************************************)
EXTENDS Integers, Sequences, FiniteSets, TLC

(* ------------------------------------------------------------------ *)
(* Bounds                                                              *)
(* ------------------------------------------------------------------ *)
\* total number of subscriptions held by the registry at one time
MaxSubs == 2
\* the same, where handlers of every declared parameter count are registered
MaxAritySubs == 3
\* the same, where handlers that write to the payload and the context are
\* registered
MaxShareSubs == 3
\* a producer stops reusing its context mapping once the count in it is this
MaxCount == 2
\* total number of subscriptions, where handlers and filters that raise are
\* registered
MaxFailSubs == 3
\* the same, where handlers and filters declared with no parameter or with
\* four are registered
MaxOddSubs == 2
\* the same, where subscriptions are also made while an emit call is in its
\* traversal
MaxLateSubs == 3
\* the same, where asynchronous handlers that write to the payload and the
\* context are registered before synchronous handlers and filters that read
\* them
MaxAfterSubs == 3

\* Python's None
None == "None"

(* ------------------------------------------------------------------ *)
(* The note type hierarchy: class Foo(zNote), class Bar(Foo)           *)
(* (tests/test_core.py:183-186)                                        *)
(* ------------------------------------------------------------------ *)
NoteTypes == {"zNote", "Foo", "Bar"}

\* the base class each note class is declared with
Base(t) ==
    CASE t = "zNote" -> None
      [] t = "Foo"   -> "zNote"
      [] t = "Bar"   -> "Foo"

\* faulty variants of MRO: exact-type lookup only; every note type
MRO_exact(t) == <<t>>
MRO_all(t) == <<"Bar", "Foo", "zNote">>

\* type(note).__mro__, most-derived first, restricted to the note types
MRO(t) ==
    CASE t = "zNote" -> <<"zNote">>
      [] t = "Foo"   -> <<"Foo", "zNote">>
      [] t = "Bar"   -> <<"Bar", "Foo", "zNote">>

\* issubclass(t, a): a is t itself or an ancestor of t
RECURSIVE issubclass(_, _)
issubclass(t, a) ==
    IF t = None THEN FALSE
    ELSE IF t = a THEN TRUE
    ELSE issubclass(Base(t), a)

(* ------------------------------------------------------------------ *)
(* Handlers and filters: the callables a subscriber registers.  Each   *)
(* is an identity with the properties the dispatcher reflects on       *)
(* (declared parameter count, coroutine function or not) and its       *)
(* behaviour when called.                                              *)
(* ------------------------------------------------------------------ *)
SyncHandlers  == {"sync1", "sync2", "sync3"}
AsyncHandlers == {"async1", "async2", "async3"}
\* async handlers used for the scheduling properties: "waiter" completes
\* only after "signaller" of the same emission has begun to run
WaitHandlers  == {"waiter", "signaller"}
\* handlers that write to the mappings they are given:
\*   "set_ok"  is  def set_ok(note, payload): payload["ok"] = True
\*   "aset_ok" is  async def aset_ok(note, payload): payload["ok"] = True
\*   "count" / "acount" are the synchronous / asynchronous
\*       def count(note, payload, context):
\*           context["count"] = context.get("count", 0) + 1
\*           return context["count"]
CountHandlers == {"count", "acount"}
WriteHandlers == {"set_ok", "aset_ok"} \cup CountHandlers
\* handlers that raise: the synchronous "boom", the asynchronous "aboom"
RaisingHandlers == {"boom", "aboom"}
\* handlers declared with no parameter (def sync0(): ..., async def async0():
\* ...) and with four (def sync4(a, b, c, d): ..., async def async4(a, b, c,
\* d): ...)
OddHandlers == {"sync0", "sync4", "async0", "async4"}
Handlers ==
    SyncHandlers \cup AsyncHandlers \cup WaitHandlers \cup WriteHandlers
        \cup RaisingHandlers \cup OddHandlers

\* the call of h ends with an exception
Raises(h) == h \in RaisingHandlers

\* len(inspect.signature(fn).parameters) of a handler
HandlerArity(h) ==
    CASE h = "sync1"     -> 1
      [] h = "sync2"     -> 2
      [] h = "sync3"     -> 3
      [] h = "async1"    -> 1
      [] h = "async2"    -> 2
      [] h = "async3"    -> 3
      [] h = "waiter"    -> 3
      [] h = "signaller" -> 3
      [] h = "set_ok"    -> 2
      [] h = "aset_ok"   -> 2
      [] h = "count"     -> 3
      [] h = "acount"    -> 3
      [] h = "boom"      -> 3
      [] h = "aboom"     -> 3
      [] h = "sync0"     -> 0
      [] h = "async0"    -> 0
      [] h = "sync4"     -> 4
      [] h = "async4"    -> 4

\* faulty variant of iscoroutinefunction: every handler is called in the
\* loop and run to its end there
iscoroutinefunction_never(h) == FALSE

\* asyncio.iscoroutinefunction(handler)
iscoroutinefunction(h) ==
    h \in AsyncHandlers \cup WaitHandlers
            \cup {"acount", "aboom", "async0", "async4", "aset_ok"}

\* what the handler returns; a handler without a return statement gives None
HandlerResult(h) ==
    CASE h = "sync1"     -> "r_sync1"
      [] h = "sync2"     -> "r_sync2"
      [] h = "sync3"     -> None
      [] h = "async1"    -> "r_async1"
      [] h = "async2"    -> "r_async2"
      [] h = "async3"    -> None
      [] h = "waiter"    -> "r_waiter"
      [] h = "signaller" -> None
      [] h = "sync0"     -> "r_sync0"
      [] h = "async0"    -> "r_async0"
      [] h = "sync4"     -> None
      [] h = "async4"    -> None

\* the handler whose start an asynchronous handler awaits before it completes
WaitsFor(h) == IF h = "waiter" THEN "signaller" ELSE None

\* filters, one of each declared parameter count:
\*   "f_note" is  lambda note: type(note) is Bar
\*   "f_ok"   is  lambda note, payload: payload.get('ok', False)
\*   "f_user" is  lambda note, payload, context: context.get('user') == 'alice'
\*   "f_boom" raises:  lambda note: note.missing
\* and filters declared with no parameter and with four:
\*   "f_zero" is  lambda: True
\*   "f_four" is  lambda a, b, c, d: True
Filters == {"f_note", "f_ok", "f_user", "f_boom", "f_zero", "f_four"}

\* the call of f ends with an exception
FilterRaises(f) == f = "f_boom"

\* len(inspect.signature(fn).parameters) of a filter
FilterArity(f) ==
    CASE f = "f_note" -> 1
      [] f = "f_ok"   -> 2
      [] f = "f_user" -> 3
      [] f = "f_boom" -> 1
      [] f = "f_zero" -> 0
      [] f = "f_four" -> 4

\* fn(*args) for a callable declared with n positional parameters, none of
\* them with a default: the call binds when it is given exactly n arguments
\* and raises TypeError otherwise
Binds(n, args) == Len(args) = n

(* ------------------------------------------------------------------ *)
(* Mapping objects (dict): identified by a reference, contents on the  *)
(* heap.                                                               *)
(* ------------------------------------------------------------------ *)
EmIds == {"e1"}

EmptyMap == [k \in {} |-> FALSE]

\* dict.get(key, default)
Get(m, k, d) == IF k \in DOMAIN m THEN m[k] ELSE d

\* the mapping a producer may pass as context=...
CallerCtx == <<"caller", "", 0>>
\* a mapping a producer built as {"user": "alice"} and passes as context=...
AliceCtx == <<"caller", "", 1>>
\* dict(payload) built on line 147 of emission e
PayloadRef(e) == <<"typed_payload", e, 0>>
\* faulty variant of FreshCtxRef: one default mapping for all the calls
FreshCtxRef_default(e) == <<"context", "", 0>>

\* the {} built on line 146 of emission e
FreshCtxRef(e) == <<"context", e, 0>>
\* the {} literals of line 177 for the k-th asynchronous call of emission e
EmptyPayloadRef(e, k) == <<"empty_payload", e, k>>
EmptyCtxRef(e, k) == <<"empty_context", e, k>>

\* the keyword arguments a producer passes to emit
PayloadInputs == {EmptyMap, [ok |-> TRUE]}

\* faulty variant of FilterEval: the filter's verdict is ignored
FilterEval_ignored(f, args, h) == TRUE

\* calling the filter with the arguments it was given
FilterEval(f, args, h) ==
    CASE f = "f_note" -> args[1].cls = "Bar"
      [] f = "f_ok"   -> Get(h[args[2]], "ok", FALSE)
      [] f = "f_user" -> Get(h[args[3]], "user", None) = "alice"
      [] f = "f_zero" -> TRUE
      [] f = "f_four" -> TRUE

(* ------------------------------------------------------------------ *)
(* State                                                               *)
(* ------------------------------------------------------------------ *)
VARIABLES
    subscriptions,  \* Dispatcher._subscriptions: type -> list of <<handler, filter>>
    core_subscriptions, \* the module-level _subscriptions of core.py
    heap,           \* contents of the live mapping objects
    em              \* per emit call: its local variables and its outcome

vars == <<subscriptions, core_subscriptions, heap, em>>

IdleEmission ==
    [pc |-> "idle", note |-> None, context |-> None, typed_payload |-> None,
     seen_handlers |-> {}, sync_responses |-> <<>>, async_calls |-> <<>>,
     tasks |-> <<>>, finished |-> <<>>, calls |-> <<>>, checks |-> <<>>,
     registry |-> EmptyMap, kwargs |-> EmptyMap, result |-> <<>>,
     error |-> None, i |-> 1, j |-> 1]

Init ==
    /\ subscriptions = EmptyMap
    /\ core_subscriptions = EmptyMap
    /\ heap = (CallerCtx :> EmptyMap)
    /\ em = [e \in EmIds |-> IdleEmission]

\* number of subscriptions in a registry
RECURSIVE SumLen(_, _)
SumLen(reg, ts) ==
    IF ts = {} THEN 0
    ELSE LET t == CHOOSE x \in ts : TRUE
         IN Len(reg[t]) + SumLen(reg, ts \ {t})

TotalSubs(reg) == SumLen(reg, DOMAIN reg)

(* ------------------------------------------------------------------ *)
(* Dispatcher.subscribe(note_type, filter)(func)                       *)
(* ------------------------------------------------------------------ *)
\* faulty variant of Registered: the new entry is put in front of the list
Registered_front(reg, note_type, func, filter) ==
    LET reg1 == IF note_type \notin DOMAIN reg
                THEN reg @@ (note_type :> <<>>)
                ELSE reg
    IN [reg1 EXCEPT ![note_type] = <<<<func, filter>>>> \o @]

\* lines 89-91: the registry after the decorator has run
Registered(reg, note_type, func, filter) ==
    LET reg1 == IF note_type \notin DOMAIN reg
                THEN reg @@ (note_type :> <<>>)
                ELSE reg
    IN [reg1 EXCEPT ![note_type] = Append(@, <<func, filter>>)]

subscribe(note_type, func, filter) ==
    /\ subscriptions' = Registered(subscriptions, note_type, func, filter)
    /\ UNCHANGED <<core_subscriptions, heap, em>>

(* ------------------------------------------------------------------ *)
(* subscribe(note_type, _filter)(func) of core.py                      *)
(* ------------------------------------------------------------------ *)
\* faulty variant of core_subscribe: the entry goes to the module-level
\* registry of core.py
core_subscribe_own(note_type, func, _filter) ==
    /\ core_subscriptions' =
           Registered(core_subscriptions, note_type, func, _filter)
    /\ UNCHANGED <<subscriptions, heap, em>>

\* core.py:141-142: return Dispatcher.subscribe(note_type, _filter); the
\* decorator it returns is then applied to func
core_subscribe(note_type, func, _filter) == subscribe(note_type, func, _filter)

(* ------------------------------------------------------------------ *)
(* Dispatcher.clear_subscriptions()                                    *)
(* ------------------------------------------------------------------ *)
\* faulty variant of clear_subscriptions: the lists of Bar are kept
clear_subscriptions_partial ==
    /\ subscriptions' = [t \in DOMAIN subscriptions \cap {"Bar"} |-> subscriptions[t]]
    /\ UNCHANGED <<core_subscriptions, heap, em>>

\* line 183: cls._subscriptions.clear()
clear_subscriptions ==
    /\ subscriptions' = EmptyMap
    /\ UNCHANGED <<core_subscriptions, heap, em>>

(* ------------------------------------------------------------------ *)
(* Dispatcher.emit: the traversal, lines 148-172                       *)
(* ------------------------------------------------------------------ *)
\* faulty variant of get_args_to_pass: the whole triple whatever the signature
get_args_to_pass_all(n, all_args) == all_args

\* get_args_to_pass(fn, all_args) with n the declared parameter count of fn:
\* tuple(all_args[:n])
get_args_to_pass(n, all_args) ==
    SubSeq(all_args, 1, IF n < Len(all_args) THEN n ELSE Len(all_args))

\* Emission._Response(handler, note, payload, context, result)
Response(handler, note, payload, context, result) ==
    [handler |-> handler, note |-> note, payload |-> payload,
     context |-> context, result |-> result]

\* d[k] = v on the mapping object r
SetItem(hp, r, k, v) == [hp EXCEPT ![r] = (k :> v) @@ @]

\* what the body of a handler does when it is called with args on the heap
\* hp: the heap it leaves and the value it returns
HandlerBody(h, args, hp) ==
    CASE h \in {"set_ok", "aset_ok"} ->
           [heap |-> SetItem(hp, args[2], "ok", TRUE), result |-> None]
      [] h \in CountHandlers ->
           LET n == Get(hp[args[3]], "count", 0) + 1
           IN [heap |-> SetItem(hp, args[3], "count", n), result |-> n]
      [] h \in RaisingHandlers ->
           [heap |-> hp, result |-> None]
      [] OTHER ->
           [heap |-> hp, result |-> HandlerResult(h)]

\* faulty variant of HandlerCall: each callable works on its own copy of the
\* mappings, its writes are lost
HandlerCall_copy(h, args, hp) == [HandlerBody(h, args, hp) EXCEPT !.heap = hp]

\* handler(*args): the mappings are passed by reference
HandlerCall(h, args, hp) == HandlerBody(h, args, hp)

\* faulty variant of Raise: the exception is caught and the loop goes on
Raise_caught(st, exc) == st

\* an exception raised by a filter or a handler is not caught inside emit:
\* it ends the traversal
Raise(st, exc) == [st EXCEPT !.raised = exc]

\* the body of the inner loop (lines 154-172) for one (handler, filter) pair
VisitBody(st, note, typed_payload, context, handler, filter, skip) ==
    IF skip
    THEN st
    ELSE
      LET handler_args == <<note, typed_payload, context>>
          filter_args  == IF filter # None THEN handler_args ELSE None
          fargs == IF filter # None
                   THEN get_args_to_pass(FilterArity(filter), filter_args)
                   ELSE None
          fbinds == filter = None \/ Binds(FilterArity(filter), fargs)
          fraised == filter # None /\ FilterRaises(filter)
          passed == \/ filter = None
                    \/ /\ fbinds
                       /\ ~fraised
                       /\ FilterEval(filter, fargs, st.heap)
          args == get_args_to_pass(HandlerArity(handler), handler_args)
          st1 == [st EXCEPT !.seen_handlers = @ \cup {handler},
                            !.checks = Append(@, [handler |-> handler,
                                                  filter |-> filter,
                                                  args |-> fargs,
                                                  passed |-> passed])]
      IN IF ~fbinds THEN Raise(st1, "TypeError")
         ELSE IF fraised THEN Raise(st1, filter)
         ELSE IF ~passed THEN st1
         ELSE IF iscoroutinefunction(handler)
         THEN [st1 EXCEPT !.async_calls = Append(@, <<handler, args>>)]
         ELSE IF ~Binds(HandlerArity(handler), args)
         THEN Raise(st1, "TypeError")
         ELSE
           LET run == HandlerCall(handler, args, st1.heap)
               st2 == [st1 EXCEPT
                         !.heap = run.heap,
                         !.calls = Append(@, [handler |-> handler,
                                              args |-> args,
                                              result |-> run.result])]
           IN IF Raises(handler) THEN Raise(st2, handler)
              ELSE [st2 EXCEPT
                      !.sync_responses =
                          Append(@, Response(handler, note, typed_payload,
                                             context, run.result))]

\* faulty variant of Visit: no check against seen_handlers
Visit_nodedup(st, note, typed_payload, context, handler, filter) ==
    VisitBody(st, note, typed_payload, context, handler, filter, FALSE)

\* faulty variant of Visit: a handler is marked only once its filter has let
\* it through, a subscription whose filter rejected does not hide later ones
Visit_passedOnly(st, note, typed_payload, context, handler, filter) ==
    VisitBody(st, note, typed_payload, context, handler, filter,
              handler \in {st.calls[k].handler : k \in DOMAIN st.calls}
                  \cup {st.async_calls[k][1] : k \in DOMAIN st.async_calls})

\* faulty variant of Visit: a subscription is delivered once, the entry
\* that was visited is taken out of the registry
Visit_consume(st, note, typed_payload, context, handler, filter) ==
    LET t == MRO(note.cls)[st.i]
        st1 == VisitBody(st, note, typed_payload, context, handler, filter,
                         handler \in st.seen_handlers)
    IN [st1 EXCEPT !.subs[t] = SubSeq(@, 1, st.j - 1)
                                  \o SubSeq(@, st.j + 1, Len(@)),
                   !.j = @ - 1]

\* lines 154-156: a handler already in seen_handlers is skipped
Visit(st, note, typed_payload, context, handler, filter) ==
    VisitBody(st, note, typed_payload, context, handler, filter,
              handler \in st.seen_handlers)

\* the two nested for loops (lines 151-153): i indexes type(note).__mro__,
\* j the list registered under the i-th type; an exception leaves the loops
RECURSIVE Traverse(_, _, _, _)
Traverse(st, note, typed_payload, context) ==
    LET mro == MRO(note.cls)
    IN IF st.raised # None \/ st.i > Len(mro) THEN st
       ELSE LET note_type == mro[st.i]
            IN IF \/ note_type \notin DOMAIN st.subs
                  \/ st.j > Len(st.subs[note_type])
               THEN Traverse([st EXCEPT !.i = @ + 1, !.j = 1],
                             note, typed_payload, context)
               ELSE LET sub == st.subs[note_type][st.j]
                        st1 == Visit(st, note, typed_payload, context,
                                     sub[1], sub[2])
                    IN Traverse([st1 EXCEPT !.j = @ + 1],
                                note, typed_payload, context)

\* the objects emission e allocated: they die when the emit call is over
OwnedBy(e) == {r \in DOMAIN heap : r[2] = e}

Restrict(f, S) == [x \in S |-> f[x]]

\* every asynchronous unit of emission e has run to its end
Settled(e) == \A k \in 1..Len(em[e].tasks) : em[e].tasks[k].status = "done"

\* faulty variant of Emission: no Emission object when there is no Response
Emission_none(sync, async) == IF sync \o async = <<>> THEN None ELSE sync \o async

\* faulty variants of Emission: awaited results only; awaited results first
Emission_asyncOnly(sync, async) == async
Emission_asyncFirst(sync, async) == async \o sync

\* line 178: Emission(sync_responses + async_responses)
Emission(sync, async) == sync \o async

\* faulty variant of NewSeenHandlers: one set for the class, shared by the
\* emit calls
NewSeenHandlers_shared(e) == UNION {em[x].seen_handlers : x \in DOMAIN em}

\* line 150: seen_handlers = set(), a new set in each emit call
NewSeenHandlers(e) == {}

\* the generator of line 175, h(*args) for h, args in async_calls, makes
\* every coroutine object: each call binds its arguments
CoroutinesMade(async_calls) ==
    \A k \in DOMAIN async_calls :
        Binds(HandlerArity(async_calls[k][1]), async_calls[k][2])

\* zNote.emit(context=..., **payload) -> Dispatcher.emit, up to the first
\* suspension (line 175), the return (line 178) when nothing is awaited, or
\* the exception that leaves the traversal
emit(e, cls, ctx_arg, payload) ==
    /\ em[e].pc = "idle"
    /\ LET note == [cls |-> cls, id |-> e]
           context == IF ctx_arg = None THEN FreshCtxRef(e) ELSE ctx_arg
           typed_payload == PayloadRef(e)
           heap1 == IF ctx_arg = None
                    THEN heap @@ (FreshCtxRef(e) :> EmptyMap)
                    ELSE heap
           heap2 == heap1 @@ (typed_payload :> payload)
           st0 == [i |-> 1, j |-> 1, subs |-> subscriptions, heap |-> heap2,
                   seen_handlers |-> NewSeenHandlers(e),
                   sync_responses |-> <<>>,
                   async_calls |-> <<>>, calls |-> <<>>, checks |-> <<>>,
                   raised |-> None]
           st == Traverse(st0, note, typed_payload, context)
           rec == [IdleEmission EXCEPT
                     !.note = note, !.context = context,
                     !.typed_payload = typed_payload,
                     !.seen_handlers = st.seen_handlers,
                     !.sync_responses = st.sync_responses,
                     !.async_calls = st.async_calls,
                     !.calls = st.calls, !.checks = st.checks,
                     !.registry = subscriptions, !.kwargs = payload]
       IN /\ subscriptions' = st.subs
          /\ heap' = st.heap
          /\ em' = [em EXCEPT ![e] =
                 IF st.raised # None
                 THEN [rec EXCEPT !.pc = "failed", !.result = None,
                                  !.error = st.raised]
                 ELSE IF st.async_calls = <<>>
                 THEN [rec EXCEPT !.pc = "returned",
                                  !.result = Emission(st.sync_responses, <<>>)]
                 ELSE IF ~CoroutinesMade(st.async_calls)
                 THEN [rec EXCEPT !.pc = "failed", !.result = None,
                                  !.error = "TypeError"]
                 ELSE [rec EXCEPT !.pc = "gather",
                                  !.tasks = [k \in 1..Len(st.async_calls) |->
                                               [status |-> "pending",
                                                result |-> None]]]]
    /\ UNCHANGED core_subscriptions

(* ------------------------------------------------------------------ *)
(* Dispatcher.emit, one iteration of the inner loop at a time: the     *)
(* same lines as emit above, with the points between two iterations    *)
(* visible.  The registry and the mappings are read where the code     *)
(* reads them, in their state at that iteration.                       *)
(* ------------------------------------------------------------------ *)
\* lines 145-150: the local variables of the call
emit_begin(e, cls, ctx_arg, payload) ==
    /\ em[e].pc = "idle"
    /\ LET context == IF ctx_arg = None THEN FreshCtxRef(e) ELSE ctx_arg
           heap1 == IF ctx_arg = None
                    THEN heap @@ (FreshCtxRef(e) :> EmptyMap)
                    ELSE heap
       IN /\ heap' = heap1 @@ (PayloadRef(e) :> payload)
          /\ em' = [em EXCEPT ![e] =
                 [IdleEmission EXCEPT
                     !.pc = "traversal",
                     !.note = [cls |-> cls, id |-> e],
                     !.context = context,
                     !.typed_payload = PayloadRef(e),
                     !.seen_handlers = NewSeenHandlers(e),
                     !.registry = subscriptions, !.kwargs = payload]]
    /\ UNCHANGED <<subscriptions, core_subscriptions>>

\* lines 151-153: where the loops go next from position (i, j): the j-th
\* entry of the list of the i-th type if the list has one, else the first
\* entry of the next type that has a list; i beyond the chain when the
\* loops are over
RECURSIVE Seek(_, _, _, _)
Seek(reg, mro, i, j) ==
    IF i > Len(mro) THEN <<i, 1>>
    ELSE IF mro[i] \in DOMAIN reg /\ j <= Len(reg[mro[i]]) THEN <<i, j>>
    ELSE Seek(reg, mro, i + 1, 1)

\* the position of the next iteration of emission e
NextPos(e) == Seek(subscriptions, MRO(em[e].note.cls), em[e].i, em[e].j)

\* the loops of emission e are over
LoopsOver(e) == NextPos(e)[1] > Len(MRO(em[e].note.cls))

\* lines 153-172: the next iteration of the inner loop
emit_visit(e) ==
    /\ em[e].pc = "traversal"
    /\ ~LoopsOver(e)
    /\ LET pos == NextPos(e)
           sub == subscriptions[MRO(em[e].note.cls)[pos[1]]][pos[2]]
           st == [i |-> pos[1], j |-> pos[2], subs |-> subscriptions,
                  heap |-> heap, seen_handlers |-> em[e].seen_handlers,
                  sync_responses |-> em[e].sync_responses,
                  async_calls |-> em[e].async_calls, calls |-> em[e].calls,
                  checks |-> em[e].checks, raised |-> None]
           st1 == Visit(st, em[e].note, em[e].typed_payload, em[e].context,
                        sub[1], sub[2])
       IN /\ subscriptions' = st1.subs
          /\ heap' = st1.heap
          /\ em' = [em EXCEPT ![e] =
                 [@ EXCEPT !.i = pos[1], !.j = pos[2] + 1,
                           !.seen_handlers = st1.seen_handlers,
                           !.sync_responses = st1.sync_responses,
                           !.async_calls = st1.async_calls,
                           !.calls = st1.calls, !.checks = st1.checks,
                           !.pc = IF st1.raised # None THEN "failed"
                                  ELSE "traversal",
                           !.result = IF st1.raised # None THEN None ELSE @,
                           !.error = st1.raised]]
    /\ UNCHANGED core_subscriptions

\* lines 173-175, and 178 when nothing is awaited: the loops are over
emit_join(e) ==
    /\ em[e].pc = "traversal"
    /\ LoopsOver(e)
    /\ em' = [em EXCEPT ![e] =
           IF em[e].async_calls = <<>>
           THEN [@ EXCEPT !.pc = "returned",
                          !.result = Emission(em[e].sync_responses, <<>>)]
           ELSE IF ~CoroutinesMade(em[e].async_calls)
           THEN [@ EXCEPT !.pc = "failed", !.result = None,
                          !.error = "TypeError"]
           ELSE [@ EXCEPT !.pc = "gather",
                          !.tasks = [k \in 1..Len(em[e].async_calls) |->
                                       [status |-> "pending",
                                        result |-> None]]]]
    /\ UNCHANGED <<subscriptions, core_subscriptions, heap>>

(* ------------------------------------------------------------------ *)
(* The asynchronous units submitted by asyncio.gather on line 175      *)
(* ------------------------------------------------------------------ *)
\* the first step of the k-th unit, provided the units before it are `before`:
\* the handler is called with its arguments and runs up to its first await
task_begin(e, k, before) ==
    /\ k \in 1..Len(em[e].tasks)
    /\ em[e].tasks[k].status = "pending"
    /\ \A m \in 1..(k - 1) : em[e].tasks[m].status \in before
    /\ LET h == em[e].async_calls[k][1]
           args == em[e].async_calls[k][2]
           run == HandlerCall(h, args, heap)
       IN /\ em' = [em EXCEPT
                      ![e].tasks[k] = [status |-> "running",
                                       result |-> run.result],
                      ![e].calls = Append(@, [handler |-> h, args |-> args,
                                              result |-> run.result])]
          /\ heap' = run.heap
    /\ UNCHANGED <<subscriptions, core_subscriptions>>

\* faulty variant of task_start: each unit is awaited before the next is begun
task_start_serial(e, k) == task_begin(e, k, {"done"})

\* the event loop runs the first step of the k-th unit: the handler is
\* called with its arguments.  Units are started in the order gather
\* wrapped them (call_soon is first-in first-out), none waits for another.
task_start(e, k) == task_begin(e, k, {"running", "done"})

\* a started unit of emission e is the handler h
Started(e, h) ==
    \E m \in 1..Len(em[e].tasks) :
        /\ em[e].async_calls[m][1] = h
        /\ em[e].tasks[m].status # "pending"

\* the k-th unit returns or raises, in any order relative to the other units
task_finish(e, k) ==
    /\ k \in 1..Len(em[e].tasks)
    /\ em[e].tasks[k].status = "running"
    /\ LET h == em[e].async_calls[k][1]
       IN /\ WaitsFor(h) # None => Started(e, WaitsFor(h))
          /\ em' = [em EXCEPT
                       ![e].tasks[k].status =
                           IF Raises(h) THEN "failed" ELSE "done",
                       ![e].finished = Append(@, k)]
    /\ UNCHANGED <<subscriptions, core_subscriptions, heap>>

\* line 177: the Response of the k-th asynchronous call; a handler that
\* took fewer than three arguments gets a new empty dict in the missing slots
AsyncResponse(e, k, handler, args, result) ==
    Response(handler, args[1],
             IF Len(args) > 1 THEN args[2] ELSE EmptyPayloadRef(e, k),
             IF Len(args) > 2 THEN args[3] ELSE EmptyCtxRef(e, k),
             result)

\* the new empty dicts line 177 allocates for the k-th asynchronous call
AsyncAllocated(e, k, args) ==
    (IF Len(args) > 1 THEN {} ELSE {EmptyPayloadRef(e, k)})
    \cup (IF Len(args) > 2 THEN {} ELSE {EmptyCtxRef(e, k)})

\* results of gather: one per awaitable, in the order they were passed
gather_results(e) == [k \in 1..Len(em[e].tasks) |-> em[e].tasks[k].result]

\* faulty variant of async_responses: Responses in the order of completion
async_responses_completion(e) ==
    LET calls == em[e].async_calls
        done == em[e].finished
    IN [k \in 1..Len(done) |->
           AsyncResponse(e, done[k], calls[done[k]][1], calls[done[k]][2],
                         em[e].tasks[done[k]].result)]

\* faulty variant of async_responses: Responses only for the handlers the
\* registry still holds when the await is over
async_responses_registered(e) ==
    LET calls == em[e].async_calls
        results == gather_results(e)
        all == [k \in 1..Len(calls) |->
                   AsyncResponse(e, k, calls[k][1], calls[k][2], results[k])]
        Held(r) == \E t \in DOMAIN subscriptions :
                       \E p \in DOMAIN subscriptions[t] :
                           subscriptions[t][p][1] = r.handler
    IN SelectSeq(all, Held)

\* lines 176-177: zip(async_calls, results) turned into Responses
async_responses(e) ==
    LET calls == em[e].async_calls
        results == gather_results(e)
    IN [k \in 1..Len(calls) |->
           AsyncResponse(e, k, calls[k][1], calls[k][2], results[k])]

\* faulty variant of gather_done: gather(..., return_exceptions=True), the
\* await ends when every unit has returned or raised
gather_all_ended(e) ==
    \A k \in 1..Len(em[e].tasks) : em[e].tasks[k].status \in {"done", "failed"}

\* faulty variant of gather_done: the await ends with the first completion
gather_first(e) == \E k \in 1..Len(em[e].tasks) : em[e].tasks[k].status = "done"

\* the await on line 175 is over once every unit has completed
gather_done(e) == Settled(e)

\* line 177 reads args[0] of every asynchronous call: IndexError when a
\* handler was given no argument
ResponsesBuilt(async_calls) ==
    \A k \in DOMAIN async_calls : Len(async_calls[k][2]) > 0

\* gather completes: lines 175-178
emit_return(e) ==
    /\ em[e].pc = "gather"
    /\ gather_done(e)
    /\ LET calls == em[e].async_calls
           fresh == UNION {AsyncAllocated(e, k, calls[k][2]) : k \in 1..Len(calls)}
       IN IF ResponsesBuilt(calls)
          THEN /\ em' = [em EXCEPT ![e].pc = "returned",
                                   ![e].result = Emission(em[e].sync_responses,
                                                          async_responses(e))]
               /\ heap' = heap @@ [r \in fresh |-> EmptyMap]
          ELSE /\ em' = [em EXCEPT ![e].pc = "failed", ![e].result = None,
                                   ![e].error = "IndexError"]
               /\ heap' = heap
    /\ UNCHANGED <<subscriptions, core_subscriptions>>

\* the units of emission e that ended with an exception
FailedUnits(e) == {k \in DOMAIN em[e].tasks : em[e].tasks[k].status = "failed"}

\* line 175: gather was called without return_exceptions, so the first
\* exception of a unit is raised by the await and leaves emit; the other
\* units are not cancelled
emit_raise(e) ==
    /\ em[e].pc = "gather"
    /\ FailedUnits(e) # {}
    /\ em' = [em EXCEPT ![e].pc = "failed", ![e].result = None,
                        ![e].error = em[e].async_calls[em[e].finished[
                            CHOOSE i \in DOMAIN em[e].finished :
                                /\ em[e].finished[i] \in FailedUnits(e)
                                /\ \A j \in 1..(i - 1) :
                                       em[e].finished[j] \notin FailedUnits(e)]][1]]
    /\ UNCHANGED <<subscriptions, core_subscriptions, heap>>

\* the producer is done with the outcome of the emit call (the Emission it
\* got, or the exception); the units of the call are over and the mappings
\* only that call referred to are collected
forget(e) ==
    /\ em[e].pc \in {"returned", "failed"}
    /\ \A k \in DOMAIN em[e].tasks : em[e].tasks[k].status \in {"done", "failed"}
    /\ em' = [em EXCEPT ![e] = IdleEmission]
    /\ heap' = Restrict(heap, DOMAIN heap \ OwnedBy(e))
    /\ UNCHANGED <<subscriptions, core_subscriptions>>

(* ------------------------------------------------------------------ *)
(* Specifications                                                      *)
(* ------------------------------------------------------------------ *)
\* no emit call is in progress and no Emission is retained
Quiescent == \A e \in DOMAIN em : em[e].pc = "idle"

\* the registry has room for one more subscription
Room == TotalSubs(subscriptions) < MaxSubs

\* Spec: two synchronous and two asynchronous handlers, two of them also
\* registered behind the filter
Registrations ==
    {<<"sync1", None>>, <<"sync1", "f_ok">>, <<"sync3", None>>,
     <<"async1", None>>, <<"async1", "f_ok">>, <<"async3", None>>}
CtxArgs == {None, CallerCtx}

\* registration and clearing happen between emissions (registration at
\* setup time); emissions run one after the other
Next ==
    \/ /\ Quiescent /\ Room
       /\ \E t \in NoteTypes, r \in Registrations : subscribe(t, r[1], r[2])
    \/ Quiescent /\ clear_subscriptions
    \/ \E e \in EmIds, t \in NoteTypes, c \in CtxArgs, p \in PayloadInputs :
           emit(e, t, c, p)
    \/ \E e \in EmIds, k \in 1..MaxSubs : task_start(e, k)
    \/ \E e \in EmIds, k \in 1..MaxSubs : task_finish(e, k)
    \/ \E e \in EmIds : emit_return(e)
    \/ \E e \in EmIds : forget(e)

Spec == Init /\ [][Next]_vars

\* SpecAsync: the scheduling of the asynchronous units.  Unfiltered handlers,
\* among them one that waits for another; the event loop keeps running the
\* units that are ready and resumes the emit call whose await is over.
AsyncRegistrations ==
    {<<"sync1", None>>, <<"async1", None>>, <<"waiter", None>>,
     <<"signaller", None>>}
AsyncTypes == {"zNote", "Foo"}

Loop ==
    \/ \E e \in EmIds, k \in 1..MaxSubs : task_start(e, k)
    \/ \E e \in EmIds, k \in 1..MaxSubs : task_finish(e, k)
    \/ \E e \in EmIds : emit_return(e)

NextAsync ==
    \/ /\ Quiescent /\ Room
       /\ \E t \in AsyncTypes, r \in AsyncRegistrations : subscribe(t, r[1], r[2])
    \/ Quiescent /\ clear_subscriptions
    \/ \E e \in EmIds, t \in NoteTypes : emit(e, t, None, EmptyMap)
    \/ Loop
    \/ \E e \in EmIds : forget(e)

SpecAsync == Init /\ [][NextAsync]_vars /\ WF_vars(Loop)

\* SpecArity: handlers and filters of every declared parameter count,
\* registered under one type; the producer passes no context, an empty one
\* or {"user": "alice"}
InitArity ==
    /\ subscriptions = EmptyMap
    /\ core_subscriptions = EmptyMap
    /\ heap = (CallerCtx :> EmptyMap) @@ (AliceCtx :> [user |-> "alice"])
    /\ em = [e \in EmIds |-> IdleEmission]

ArityRegistrations ==
    {<<"sync1", None>>, <<"sync2", None>>, <<"sync3", None>>,
     <<"async1", "f_note">>, <<"async2", "f_ok">>, <<"async3", "f_user">>}
ArityTypes == {"Foo", "Bar"}
ArityCtxArgs == {None, CallerCtx, AliceCtx}

NextArity ==
    \/ /\ Quiescent /\ TotalSubs(subscriptions) < MaxAritySubs
       /\ \E r \in ArityRegistrations : subscribe("Foo", r[1], r[2])
    \/ Quiescent /\ clear_subscriptions
    \/ \E e \in EmIds, t \in ArityTypes, c \in ArityCtxArgs, p \in PayloadInputs :
           emit(e, t, c, p)
    \/ \E e \in EmIds, k \in 1..MaxAritySubs : task_start(e, k)
    \/ \E e \in EmIds, k \in 1..MaxAritySubs : task_finish(e, k)
    \/ \E e \in EmIds : emit_return(e)
    \/ \E e \in EmIds : forget(e)

SpecArity == InitArity /\ [][NextArity]_vars

\* SpecShare: handlers that write to the payload and to the context, a filter
\* that reads the payload; the producer passes no context or its own mapping
ShareRegistrations ==
    {<<"set_ok", None>>, <<"count", None>>, <<"acount", None>>,
     <<"acount", "f_ok">>, <<"sync2", "f_ok">>}

\* the producer's mapping is still to be reused
Reusable == Get(heap[CallerCtx], "count", 0) < MaxCount

NextShare ==
    \/ /\ Quiescent /\ TotalSubs(subscriptions) < MaxShareSubs
       /\ \E r \in ShareRegistrations : subscribe("Foo", r[1], r[2])
    \/ Quiescent /\ clear_subscriptions
    \/ /\ Reusable
       /\ \E e \in EmIds, c \in CtxArgs, p \in PayloadInputs :
              emit(e, "Foo", c, p)
    \/ \E e \in EmIds, k \in 1..MaxShareSubs : task_start(e, k)
    \/ \E e \in EmIds, k \in 1..MaxShareSubs : task_finish(e, k)
    \/ \E e \in EmIds : emit_return(e)
    \/ \E e \in EmIds : forget(e)

SpecShare == Init /\ [][NextShare]_vars

\* SpecTwo: two emit calls, one after the other or overlapping (the second
\* runs while the first is suspended in its join or after it has returned
\* and its Emission is still held); handlers that write to the payload and
\* the context
TwoEmIds == {"e1", "e2"}

InitTwo ==
    /\ subscriptions = EmptyMap
    /\ core_subscriptions = EmptyMap
    /\ heap = (CallerCtx :> EmptyMap)
    /\ em = [e \in TwoEmIds |-> IdleEmission]

TwoRegistrations ==
    {<<"set_ok", None>>, <<"count", None>>, <<"acount", None>>,
     <<"sync2", "f_ok">>, <<"async1", None>>}

NextTwo ==
    \/ /\ Quiescent /\ Room
       /\ \E r \in TwoRegistrations : subscribe("Foo", r[1], r[2])
    \/ Quiescent /\ clear_subscriptions
    \/ /\ Reusable
       /\ \E e \in TwoEmIds, c \in CtxArgs, p \in PayloadInputs :
              emit(e, "Foo", c, p)
    \/ \E e \in TwoEmIds, k \in 1..MaxSubs : task_start(e, k)
    \/ \E e \in TwoEmIds, k \in 1..MaxSubs : task_finish(e, k)
    \/ \E e \in TwoEmIds : emit_return(e)
    \/ \E e \in TwoEmIds : forget(e)

SpecTwo == InitTwo /\ [][NextTwo]_vars

\* SpecFail: handlers and a filter that raise, next to handlers that return;
\* the event loop keeps running the units that are ready and resumes the
\* emit call whose await is over
FailRegistrations ==
    {<<"sync1", None>>, <<"boom", None>>, <<"sync3", "f_boom">>,
     <<"async1", None>>, <<"aboom", None>>, <<"sync2", "f_ok">>}
FailTypes == {"Foo", "Bar"}

LoopFail ==
    \/ \E e \in EmIds, k \in 1..MaxFailSubs : task_start(e, k)
    \/ \E e \in EmIds, k \in 1..MaxFailSubs : task_finish(e, k)
    \/ \E e \in EmIds : emit_return(e)
    \/ \E e \in EmIds : emit_raise(e)

NextFail ==
    \/ /\ Quiescent /\ TotalSubs(subscriptions) < MaxFailSubs
       /\ \E t \in FailTypes, r \in FailRegistrations : subscribe(t, r[1], r[2])
    \/ Quiescent /\ clear_subscriptions
    \/ \E e \in EmIds, t \in NoteTypes, p \in PayloadInputs : emit(e, t, None, p)
    \/ LoopFail
    \/ \E e \in EmIds : forget(e)

SpecFail == Init /\ [][NextFail]_vars /\ WF_vars(LoopFail)

\* SpecClear: an emit call "e1", whose Emission the producer keeps, then
\* changes of the registry, then an emit call "e2"
ClearRegistrations == {<<"sync1", None>>, <<"async1", None>>}
ClearTypes == {"Foo", "Bar"}

\* no emit call is in progress and "e2" has not been made; the Emission of
\* "e1" may be held
Between == em["e2"].pc = "idle" /\ em["e1"].pc \in {"idle", "returned"}

NextClear ==
    \/ /\ Between /\ Room
       /\ \E t \in ClearTypes, r \in ClearRegistrations : subscribe(t, r[1], r[2])
    \/ Between /\ clear_subscriptions
    \/ /\ em["e2"].pc = "idle"
       /\ \E t \in ClearTypes : emit("e1", t, None, EmptyMap)
    \/ /\ em["e1"].pc = "returned"
       /\ \E t \in ClearTypes : emit("e2", t, None, EmptyMap)
    \/ \E e \in TwoEmIds, k \in 1..MaxSubs : task_start(e, k)
    \/ \E e \in TwoEmIds, k \in 1..MaxSubs : task_finish(e, k)
    \/ \E e \in TwoEmIds : emit_return(e)
    \/ em["e2"].pc = "idle" /\ forget("e1")
    \/ forget("e2")

SpecClear == InitTwo /\ [][NextClear]_vars

\* SpecForms: handlers registered through Dispatcher.subscribe and handlers
\* registered through the module-level subscribe of core.py
DispatcherRegistrations == {<<"sync1", None>>, <<"async3", None>>}
CoreRegistrations == {<<"sync3", None>>, <<"async1", "f_ok">>}

NextForms ==
    \/ /\ Quiescent /\ Room
       /\ \E t \in NoteTypes, r \in DispatcherRegistrations :
              subscribe(t, r[1], r[2])
    \/ /\ Quiescent /\ Room
       /\ \E t \in NoteTypes, r \in CoreRegistrations :
              core_subscribe(t, r[1], r[2])
    \/ Quiescent /\ clear_subscriptions
    \/ \E e \in EmIds, t \in NoteTypes, p \in PayloadInputs : emit(e, t, None, p)
    \/ \E e \in EmIds, k \in 1..MaxSubs : task_start(e, k)
    \/ \E e \in EmIds, k \in 1..MaxSubs : task_finish(e, k)
    \/ \E e \in EmIds : emit_return(e)
    \/ \E e \in EmIds : forget(e)

SpecForms == Init /\ [][NextForms]_vars

\* SpecOdd: handlers and filters declared with no parameter or with four
\* parameters, next to a handler declared with one
OddRegistrations ==
    {<<"sync0", None>>, <<"sync4", None>>, <<"async0", None>>,
     <<"async4", None>>, <<"sync1", "f_zero">>, <<"sync1", "f_four">>,
     <<"async1", None>>}
OddTypes == {"Foo", "Bar"}

NextOdd ==
    \/ /\ Quiescent /\ TotalSubs(subscriptions) < MaxOddSubs
       /\ \E t \in OddTypes, r \in OddRegistrations : subscribe(t, r[1], r[2])
    \/ Quiescent /\ clear_subscriptions
    \/ \E e \in EmIds, t \in OddTypes : emit(e, t, None, EmptyMap)
    \/ \E e \in EmIds, k \in 1..MaxOddSubs : task_start(e, k)
    \/ \E e \in EmIds, k \in 1..MaxOddSubs : task_finish(e, k)
    \/ \E e \in EmIds : emit_return(e)
    \/ \E e \in EmIds : forget(e)

SpecOdd == Init /\ [][NextOdd]_vars

StepTypes == {"Foo", "zNote"}

\* SpecRepeat: an emit call "e1", then, its outcome still held by the
\* producer, an emit call "e2" of the same note type; a handler that raises
\* when the payload lets it through.  The registry is set up before "e1".
RepeatRegistrations ==
    {<<"sync1", None>>, <<"async1", None>>, <<"boom", "f_ok">>}

\* the emit call e is over: it returned or raised, and its units have ended
Over(e) ==
    /\ em[e].pc \in {"returned", "failed"}
    /\ \A k \in DOMAIN em[e].tasks : em[e].tasks[k].status \in {"done", "failed"}

NextRepeat ==
    \/ /\ Quiescent /\ Room
       /\ \E t \in StepTypes, r \in RepeatRegistrations :
              subscribe(t, r[1], r[2])
    \/ Quiescent /\ clear_subscriptions
    \/ /\ em["e2"].pc = "idle"
       /\ \E p \in PayloadInputs : emit("e1", "Foo", None, p)
    \/ /\ Over("e1")
       /\ \E p \in PayloadInputs : emit("e2", "Foo", None, p)
    \/ \E e \in TwoEmIds, k \in 1..MaxSubs : task_start(e, k)
    \/ \E e \in TwoEmIds, k \in 1..MaxSubs : task_finish(e, k)
    \/ \E e \in TwoEmIds : emit_return(e)
    \/ em["e2"].pc = "idle" /\ forget("e1")
    \/ forget("e2")

SpecRepeat == InitTwo /\ [][NextRepeat]_vars

\* SpecSteps: two emit calls on one event loop, their traversals one
\* iteration at a time
StepRegistrations ==
    {<<"sync1", None>>, <<"sync3", "f_ok">>, <<"async1", None>>}

\* faulty variant of Yielded: the traversal gives up the event loop after
\* each iteration
Yielded_preempted == TRUE

\* no emit call is between its first line and its await or return: lines
\* 145-172 hold no await, so while a call is there the event loop runs
\* nothing else
Yielded == \A e \in DOMAIN em : em[e].pc # "traversal"

NextSteps ==
    \/ /\ Quiescent /\ Room
       /\ \E t \in StepTypes, r \in StepRegistrations : subscribe(t, r[1], r[2])
    \/ Quiescent /\ clear_subscriptions
    \/ /\ Yielded
       /\ \E e \in TwoEmIds, p \in PayloadInputs : emit_begin(e, "Foo", None, p)
    \/ \E e \in TwoEmIds : emit_visit(e)
    \/ \E e \in TwoEmIds : emit_join(e)
    \/ Yielded /\ \E e \in TwoEmIds, k \in 1..MaxSubs : task_start(e, k)
    \/ Yielded /\ \E e \in TwoEmIds, k \in 1..MaxSubs : task_finish(e, k)
    \/ Yielded /\ \E e \in TwoEmIds : emit_return(e)
    \/ Yielded /\ \E e \in TwoEmIds : forget(e)

SpecSteps == InitTwo /\ [][NextSteps]_vars

\* SpecLate: one emit call, its traversal one iteration at a time; the
\* body of a filter or of a synchronous handler of the call may subscribe,
\* which takes effect between the iteration that called it and the next
LateRegistrations ==
    {<<"sync1", None>>, <<"sync1", "f_ok">>, <<"sync3", None>>,
     <<"async1", None>>}

\* the last iteration of emission e called a filter or a synchronous
\* handler
RanCode(e) ==
    /\ em[e].pc = "traversal"
    /\ em[e].checks # <<>>
    /\ LET c == em[e].checks[Len(em[e].checks)]
       IN \/ c.filter # None
          \/ c.passed /\ ~iscoroutinefunction(c.handler)

\* no emit call is in progress, or the one in progress has just run code
\* that may subscribe
MayRegister == \A e \in DOMAIN em : em[e].pc = "idle" \/ RanCode(e)

NextLate ==
    \/ /\ MayRegister /\ TotalSubs(subscriptions) < MaxLateSubs
       /\ \E t \in StepTypes, r \in LateRegistrations : subscribe(t, r[1], r[2])
    \/ Quiescent /\ clear_subscriptions
    \/ \E e \in EmIds, p \in PayloadInputs : emit_begin(e, "Foo", None, p)
    \/ \E e \in EmIds : emit_visit(e)
    \/ \E e \in EmIds : emit_join(e)
    \/ \E e \in EmIds, k \in 1..MaxLateSubs : task_start(e, k)
    \/ \E e \in EmIds, k \in 1..MaxLateSubs : task_finish(e, k)
    \/ \E e \in EmIds : emit_return(e)
    \/ \E e \in EmIds : forget(e)

SpecLate == Init /\ [][NextLate]_vars

\* SpecJoin: one emit call; subscribe and clear_subscriptions are also
\* called while the call is suspended in its join, by another task of the
\* event loop or by one of the call's asynchronous handlers
JoinRegistrations ==
    {<<"sync1", None>>, <<"async1", None>>, <<"async3", None>>}

\* no emit call is in progress, or the one in progress is suspended on
\* line 175
Suspended == \A e \in DOMAIN em : em[e].pc \in {"idle", "gather"}

NextJoin ==
    \/ /\ Suspended /\ Room
       /\ \E t \in StepTypes, r \in JoinRegistrations : subscribe(t, r[1], r[2])
    \/ Suspended /\ clear_subscriptions
    \/ \E e \in EmIds : emit(e, "Foo", None, EmptyMap)
    \/ \E e \in EmIds, k \in 1..MaxSubs : task_start(e, k)
    \/ \E e \in EmIds, k \in 1..MaxSubs : task_finish(e, k)
    \/ \E e \in EmIds : emit_return(e)
    \/ \E e \in EmIds : forget(e)

SpecJoin == Init /\ [][NextJoin]_vars

\* SpecAfter: one emit call, its traversal one iteration at a time;
\* asynchronous handlers that write to the payload and to the context, a
\* filter and a synchronous handler that read them, a handler that raises
AfterRegistrations ==
    {<<"aset_ok", None>>, <<"acount", None>>, <<"count", None>>,
     <<"sync2", "f_ok">>, <<"boom", None>>}

NextAfter ==
    \/ /\ Quiescent /\ TotalSubs(subscriptions) < MaxAfterSubs
       /\ \E r \in AfterRegistrations : subscribe("Foo", r[1], r[2])
    \/ Quiescent /\ clear_subscriptions
    \/ \E e \in EmIds, p \in PayloadInputs : emit_begin(e, "Foo", None, p)
    \/ \E e \in EmIds : emit_visit(e)
    \/ \E e \in EmIds : emit_join(e)
    \/ \E e \in EmIds, k \in 1..MaxAfterSubs : task_start(e, k)
    \/ \E e \in EmIds, k \in 1..MaxAfterSubs : task_finish(e, k)
    \/ \E e \in EmIds : emit_return(e)
    \/ \E e \in EmIds : forget(e)

SpecAfter == Init /\ [][NextAfter]_vars

(* ------------------------------------------------------------------ *)
(* Vocabulary of the properties                                        *)
(* ------------------------------------------------------------------ *)
Returned(e) == em[e].pc = "returned"
Started_(e) == em[e].pc # "idle"

\* the subscriptions registered under t
SubsUnder(reg, t) == IF t \in DOMAIN reg THEN reg[t] ELSE <<>>

\* the subscriptions applicable to an instance of t: those of t, then those
\* of its base class, and so on up to the root
RECURSIVE Applicable(_, _)
Applicable(reg, t) ==
    IF t = None THEN <<>>
    ELSE SubsUnder(reg, t) \o Applicable(reg, Base(t))

\* the subscriptions applicable to emission e, by the registry it traversed
Chain(e) == Applicable(em[e].registry, em[e].note.cls)
HandlersOn(e) == {Chain(e)[p][1] : p \in DOMAIN Chain(e)}
SubsOf(e, h) == {p \in DOMAIN Chain(e) : Chain(e)[p][1] = h}
Unfiltered(e, h) == \A p \in SubsOf(e, h) : Chain(e)[p][2] = None
\* the position of h's first subscription in traversal order
FirstPos(e, h) == CHOOSE p \in SubsOf(e, h) : \A q \in SubsOf(e, h) : p <= q

\* the emission's payload makes filter f accept (no filter accepts)
Accepts(e, f) ==
    \/ f = None
    \/ /\ f = "f_ok"
       /\ "ok" \in DOMAIN heap[em[e].typed_payload]
       /\ heap[em[e].typed_payload]["ok"] = TRUE
    \/ /\ f = "f_note"
       /\ em[e].note.cls = "Bar"
    \/ /\ f = "f_user"
       /\ "user" \in DOMAIN heap[em[e].context]
       /\ heap[em[e].context]["user"] = "alice"

\* the calls of handler h made so far in emission e, its scheduled units,
\* its Responses
CallsOf(e, h) == {k \in DOMAIN em[e].calls : em[e].calls[k].handler = h}
UnitsOf(e, h) == {k \in DOMAIN em[e].async_calls : em[e].async_calls[k][1] = h}
ResponsesOf(e, h) == {k \in DOMAIN em[e].result : em[e].result[k].handler = h}
InvokedOnce(e, h) ==
    /\ Cardinality(CallsOf(e, h)) = 1
    /\ Cardinality(ResponsesOf(e, h)) = 1

OnChain(e, h) ==
    \E a \in NoteTypes :
        /\ issubclass(em[e].note.cls, a)
        /\ \E p \in DOMAIN SubsUnder(em[e].registry, a) :
               em[e].registry[a][p][1] = h

\* C2: every handler called, scheduled or given a Response in an emission is
\* subscribed under the note's type or an ancestor of it; the Responses are
\* no more than the handlers subscribed there, and as many when none of
\* those subscriptions has a filter.
C2_NoDeliveryOutsideChain ==
    \A e \in EmIds :
        /\ \A k \in DOMAIN em[e].calls : OnChain(e, em[e].calls[k].handler)
        /\ \A k \in DOMAIN em[e].async_calls : OnChain(e, em[e].async_calls[k][1])
        /\ \A k \in DOMAIN em[e].result : OnChain(e, em[e].result[k].handler)
        /\ Returned(e) =>
             /\ Len(em[e].result) <= Cardinality({h \in Handlers : OnChain(e, h)})
             /\ (\A h \in Handlers : OnChain(e, h) => Unfiltered(e, h))
                  => Len(em[e].result) = Cardinality({h \in Handlers : OnChain(e, h)})

\* a Foo instance was emitted while a handler was subscribed only under Bar:
\* the other handler answered, the Bar handler was not called
C2_Witness ==
    \E e \in EmIds :
        /\ Returned(e)
        /\ em[e].note.cls = "Foo"
        /\ Len(em[e].result) = 1
        /\ \E p \in DOMAIN SubsUnder(em[e].registry, "Bar") :
              LET h == em[e].registry["Bar"][p][1]
              IN ~OnChain(e, h) /\ CallsOf(e, h) = {}

(* ------------------------------------------------------------------ *)
(* C3  Deduplication                                                   *)
(* ------------------------------------------------------------------ *)
\* C3: no handler is called or scheduled more than once in an emission or has
\* more than one Response; a handler with two or more applicable
\* subscriptions, all without filter, is invoked exactly once and has exactly
\* one Response.
C3_Deduplication ==
    \A e \in EmIds : \A h \in Handlers :
        /\ Cardinality(CallsOf(e, h)) <= 1
        /\ Cardinality(UnitsOf(e, h)) <= 1
        /\ Cardinality(ResponsesOf(e, h)) <= 1
        /\ (Returned(e) /\ Cardinality(SubsOf(e, h)) >= 2 /\ Unfiltered(e, h))
              => InvokedOnce(e, h)

\* a handler subscribed without filter under two different types of the
\* note's chain was invoked once by the emission
C3_Witness ==
    \E e \in EmIds : \E h \in Handlers :
        /\ Returned(e)
        /\ Unfiltered(e, h)
        /\ \E a, b \in NoteTypes :
              /\ a # b
              /\ \E p \in DOMAIN SubsUnder(em[e].registry, a) :
                     em[e].registry[a][p][1] = h
              /\ \E p \in DOMAIN SubsUnder(em[e].registry, b) :
                     em[e].registry[b][p][1] = h
        /\ Cardinality(SubsOf(e, h)) >= 2
        /\ InvokedOnce(e, h)

(* ------------------------------------------------------------------ *)
(* C4  Filter gating                                                   *)
(* ------------------------------------------------------------------ *)
\* the subscription at position p is the one the emission considers for its
\* handler: the first of that handler in traversal order
Considered(e, p) == p \in DOMAIN Chain(e) /\ p = FirstPos(e, Chain(e)[p][1])

\* C4: for the subscription (h, f) an emission considers: when f rejects the
\* emission, h is never called, never scheduled and has no Response; when f
\* accepts it or is absent, h is scheduled or called at most once and, once
\* the emission has returned, was invoked exactly once.
C4_FilterGating ==
    \A e \in EmIds : Started_(e) =>
        \A p \in DOMAIN Chain(e) : Considered(e, p) =>
            LET h == Chain(e)[p][1]
                f == Chain(e)[p][2]
            IN IF Accepts(e, f)
               THEN /\ Cardinality(CallsOf(e, h)) <= 1
                    /\ iscoroutinefunction(h) => Cardinality(UnitsOf(e, h)) = 1
                    /\ Returned(e) => InvokedOnce(e, h)
               ELSE /\ CallsOf(e, h) = {}
                    /\ UnitsOf(e, h) = {}
                    /\ ResponsesOf(e, h) = {}

\* an emission returned in which the filter of an asynchronous handler
\* rejected (the handler was never scheduled) while an unfiltered handler of
\* the same type answered
C4_Witness ==
    \E e \in EmIds :
        /\ Returned(e)
        /\ \E p \in DOMAIN Chain(e) :
              /\ Considered(e, p)
              /\ Chain(e)[p] = <<"async1", "f_ok">>
              /\ ~Accepts(e, "f_ok")
              /\ UnitsOf(e, "async1") = {}
        /\ Len(em[e].result) >= 1

(* ------------------------------------------------------------------ *)
(* C5  Response completeness                                           *)
(* ------------------------------------------------------------------ *)
\* the handlers whose considered subscription passes its filter check
Passing(e) ==
    {h \in HandlersOn(e) : Accepts(e, Chain(e)[FirstPos(e, h)][2])}

\* C5: the Responses of a returned Emission are, one for one, the considered
\* subscriptions that passed their filter check: each such handler has exactly
\* one Response, no other handler has one, and the filter checks recorded
\* during the traversal are those subscriptions.
C5_ResponseCompleteness ==
    \A e \in EmIds : Returned(e) =>
        /\ \A h \in Handlers :
              Cardinality(ResponsesOf(e, h)) = IF h \in Passing(e) THEN 1 ELSE 0
        /\ Len(em[e].result) = Cardinality(Passing(e))
        /\ Len(em[e].checks) = Cardinality(HandlersOn(e))
        /\ \A k \in DOMAIN em[e].checks :
              LET c == em[e].checks[k]
              IN /\ c.handler \in HandlersOn(e)
                 /\ c.filter = Chain(e)[FirstPos(e, c.handler)][2]
                 /\ c.passed = (c.handler \in Passing(e))

\* an Emission holding the Response of a synchronous and of an asynchronous
\* handler, one of them behind a filter that accepted
C5_Witness ==
    \E e \in EmIds :
        /\ Returned(e)
        /\ Cardinality(HandlersOn(e)) = 2
        /\ \E p \in DOMAIN Chain(e) : Chain(e)[p][2] # None
        /\ Len(em[e].result) = 2
        /\ \E i, j \in DOMAIN em[e].result :
              /\ ~iscoroutinefunction(em[e].result[i].handler)
              /\ iscoroutinefunction(em[e].result[j].handler)

(* ------------------------------------------------------------------ *)
(* C6  Order of the Emission: synchronous part                         *)
(* ------------------------------------------------------------------ *)
SyncKind(h) == h \in SyncHandlers

\* C6: in a returned Emission no Response of an asynchronous handler comes
\* before a Response of a synchronous one, and the synchronous Responses are
\* in traversal order (more-derived type first, registration order within a
\* type).
C6_SyncOrder ==
    \A e \in EmIds : Returned(e) =>
        \A i, j \in DOMAIN em[e].result : i < j =>
            LET hi == em[e].result[i].handler
                hj == em[e].result[j].handler
            IN /\ ~(~SyncKind(hi) /\ SyncKind(hj))
               /\ (SyncKind(hi) /\ SyncKind(hj))
                     => FirstPos(e, hi) < FirstPos(e, hj)

\* an asynchronous handler subscribed on the most-derived type, a
\* synchronous one on an ancestor: the Emission lists the synchronous
\* Response first
C6_Witness ==
    \E e \in EmIds :
        /\ Returned(e)
        /\ Len(em[e].result) = 2
        /\ SubsUnder(em[e].registry, em[e].note.cls) # <<>>
        /\ ~SyncKind(em[e].registry[em[e].note.cls][1][1])
        /\ SyncKind(em[e].result[1].handler)
        /\ em[e].result[2].handler = em[e].registry[em[e].note.cls][1][1]

(* ------------------------------------------------------------------ *)
(* C7  Order of the Emission: asynchronous part                        *)
(* ------------------------------------------------------------------ *)
\* C7: in a returned Emission the Responses of the asynchronous handlers are
\* in submission order (the traversal order of their subscriptions), whatever
\* the order in which the handlers completed.
C7_AsyncOrder ==
    \A e \in EmIds : Returned(e) =>
        /\ \A i, j \in DOMAIN em[e].result : i < j =>
              LET hi == em[e].result[i].handler
                  hj == em[e].result[j].handler
              IN (~SyncKind(hi) /\ ~SyncKind(hj))
                    => /\ FirstPos(e, hi) < FirstPos(e, hj)
                       /\ \E a \in UnitsOf(e, hi), b \in UnitsOf(e, hj) : a < b
        /\ \A k \in DOMAIN em[e].async_calls :
              em[e].result[Len(em[e].sync_responses) + k].handler
                  = em[e].async_calls[k][1]

\* two asynchronous handlers, the one submitted second completed first
C7_Witness ==
    \E e \in EmIds :
        /\ Returned(e)
        /\ Len(em[e].async_calls) = 2
        /\ em[e].finished = <<2, 1>>

(* ------------------------------------------------------------------ *)
(* C8  Await-all                                                       *)
(* ------------------------------------------------------------------ *)
\* the handler behind the k-th Response of emission e has run to its end: a
\* synchronous one was called during the traversal, an asynchronous one is a
\* unit that is done
Completed(e, k) ==
    LET h == em[e].result[k].handler
    IN /\ CallsOf(e, h) # {}
       /\ iscoroutinefunction(h) =>
              \E u \in UnitsOf(e, h) : em[e].tasks[u].status = "done"

\* every asynchronous handler submitted in emission e is able to complete:
\* the one it waits for, if any, was submitted too
Terminating(e) ==
    \A k \in DOMAIN em[e].async_calls :
        WaitsFor(em[e].async_calls[k][1]) # None
            => UnitsOf(e, WaitsFor(em[e].async_calls[k][1])) # {}

AllAwaited(e) ==
    Returned(e) =>
        /\ \A u \in DOMAIN em[e].tasks : em[e].tasks[u].status = "done"
        /\ Len(em[e].tasks) = Len(em[e].async_calls)
        /\ \A k \in DOMAIN em[e].result : Completed(e, k)

\* C8: an Emission is returned only when every asynchronous handler submitted
\* in the emission is done and every handler with a Response has completed;
\* and an emission suspended in its join whose handlers all terminate
\* eventually returns.
C8_AwaitAll ==
    /\ [](\A e \in EmIds : AllAwaited(e))
    /\ \A e \in EmIds :
          (em[e].pc = "gather" /\ Terminating(e)) ~> Returned(e)

\* an emission returned after joining two asynchronous handlers, the second
\* of which completed first
C8_Witness ==
    \E e \in EmIds :
        /\ Returned(e)
        /\ Len(em[e].tasks) = 2
        /\ Len(em[e].result) = 2
        /\ em[e].finished = <<2, 1>>

(* ------------------------------------------------------------------ *)
(* C9  No serialization of asynchronous handlers                       *)
(* ------------------------------------------------------------------ *)
\* "waiter" was submitted before "signaller", the handler it waits for
WaiterFirst(e) ==
    \E i, j \in DOMAIN em[e].async_calls :
        /\ i < j
        /\ em[e].async_calls[i][1] = "waiter"
        /\ em[e].async_calls[j][1] = "signaller"

\* C9: an emission whose asynchronous handler waits for the progress of a
\* handler submitted after it still completes: the later handler runs while
\* the earlier one is unfinished.
C9_NoSerialization ==
    \A e \in EmIds :
        (em[e].pc = "gather" /\ WaiterFirst(e)) ~> (Returned(e) /\ WaiterFirst(e))

\* the waiting handler and the handler it waits for, submitted after it, are
\* in flight together
C9_Witness ==
    \E e \in EmIds :
        /\ em[e].pc = "gather"
        /\ WaiterFirst(e)
        /\ \A u \in DOMAIN em[e].tasks : em[e].tasks[u].status = "running"

(* ------------------------------------------------------------------ *)
(* C10  What a Response carries                                        *)
(* ------------------------------------------------------------------ *)
\* C10: every Response of a returned Emission carries its handler, the
\* emitted note, the payload mapping and the context mapping of the emission
\* (the objects the handlers and filters were given) and the handler's return
\* value, None when it returned nothing.
C10_ResponseCarries ==
    \A e \in EmIds : Returned(e) =>
        \A k \in DOMAIN em[e].result :
            LET r == em[e].result[k]
            IN /\ CallsOf(e, r.handler) # {}
               /\ r.note = em[e].note
               /\ r.payload = em[e].typed_payload
               /\ r.context = em[e].context
               /\ r.result = HandlerResult(r.handler)

(* ------------------------------------------------------------------ *)
(* C11  Arity-uniform invocation                                       *)
(* ------------------------------------------------------------------ *)
\* the arguments a callable declared with n parameters is to receive in
\* emission e
PrefixFor(e, n) ==
    CASE n = 1 -> <<em[e].note>>
      [] n = 2 -> <<em[e].note, em[e].typed_payload>>
      [] n = 3 -> <<em[e].note, em[e].typed_payload, em[e].context>>

\* C11: every handler called in an emission, and every filter evaluated in
\* it, received exactly the first n elements of (note, payload, context), n
\* being its declared parameter count (1: the note; 2: note and payload; 3:
\* all three); and in a returned emission the handlers of every parameter
\* count whose subscription passed were each invoked exactly once.
C11_ArityInvocation ==
    \A e \in EmIds :
        /\ \A k \in DOMAIN em[e].calls :
              em[e].calls[k].args = PrefixFor(e, HandlerArity(em[e].calls[k].handler))
        /\ \A k \in DOMAIN em[e].checks :
              em[e].checks[k].filter # None =>
                  em[e].checks[k].args =
                      PrefixFor(e, FilterArity(em[e].checks[k].filter))
        /\ Returned(e) =>
              \A h \in Passing(e) :
                  /\ InvokedOnce(e, h)
                  /\ \A k \in CallsOf(e, h) :
                         Len(em[e].calls[k].args) = HandlerArity(h)

\* one emission invoked a 1-parameter, a 2-parameter and a 3-parameter
\* handler subscribed to the same type, the last one behind a 3-parameter
\* filter that accepted
C11_Witness ==
    \E e \in EmIds :
        /\ Returned(e)
        /\ Len(SubsUnder(em[e].registry, "Foo")) = 3
        /\ \A n \in 1..3 :
              \E k \in DOMAIN em[e].calls :
                  /\ HandlerArity(em[e].calls[k].handler) = n
                  /\ Len(em[e].calls[k].args) = n
        /\ \E k \in DOMAIN em[e].checks :
              /\ em[e].checks[k].filter = "f_user"
              /\ Len(em[e].checks[k].args) = 3
              /\ em[e].checks[k].passed
        /\ Len(em[e].result) = 3

(* ------------------------------------------------------------------ *)
(* C12  Sharing within one emission                                    *)
(* ------------------------------------------------------------------ *)
\* the calls of counting handlers among the calls i+1..j of emission e
CountCalls(e, i, j) ==
    {k \in (i + 1)..j : em[e].calls[k].handler \in CountHandlers}

\* the handler "set_ok" was invoked before the k-th filter check of e
SetOkBefore(e, k) ==
    \E i \in 1..(k - 1) :
        em[e].checks[i].handler = "set_ok" /\ em[e].checks[i].passed

\* C12: in one emission every handler and every filter is given the same
\* payload mapping and the same context mapping, and a write made by an
\* earlier-invoked handler is seen by the later ones: a counting handler
\* returns the count left by the counting handler before it plus one, the
\* context holds the last count, and a filter on payload["ok"] accepts
\* exactly when the producer passed ok=True or "set_ok" ran before it.
C12_SharedMappings ==
    \A e \in EmIds : Started_(e) =>
        /\ \A k \in DOMAIN em[e].calls :
              LET a == em[e].calls[k].args
              IN /\ Len(a) >= 2 => a[2] = em[e].typed_payload
                 /\ Len(a) >= 3 => a[3] = em[e].context
        /\ \A k \in DOMAIN em[e].checks :
              LET a == em[e].checks[k].args
              IN a # None =>
                   /\ Len(a) >= 2 => a[2] = em[e].typed_payload
                   /\ Len(a) >= 3 => a[3] = em[e].context
        /\ \A i, j \in DOMAIN em[e].calls :
              (/\ i < j
               /\ em[e].calls[i].handler \in CountHandlers
               /\ em[e].calls[j].handler \in CountHandlers)
                 => em[e].calls[j].result
                      = em[e].calls[i].result + Cardinality(CountCalls(e, i, j))
        /\ \A j \in DOMAIN em[e].calls :
              (/\ em[e].calls[j].handler \in CountHandlers
               /\ CountCalls(e, j, Len(em[e].calls)) = {})
                 => Get(heap[em[e].context], "count", 0) = em[e].calls[j].result
        /\ \A k \in DOMAIN em[e].checks :
              em[e].checks[k].filter = "f_ok" =>
                  (em[e].checks[k].passed
                     <=> \/ Get(em[e].kwargs, "ok", FALSE)
                         \/ SetOkBefore(e, k))

\* the producer passed no ok: "set_ok" wrote payload["ok"], the filter of the
\* asynchronous counting handler evaluated after it accepted, and that
\* handler saw the count written by the synchronous counting handler
C12_Witness ==
    \E e \in EmIds :
        /\ Returned(e)
        /\ "ok" \notin DOMAIN em[e].kwargs
        /\ \E k \in DOMAIN em[e].checks :
              /\ em[e].checks[k].filter = "f_ok"
              /\ em[e].checks[k].handler = "acount"
              /\ em[e].checks[k].passed
              /\ SetOkBefore(e, k)
        /\ \E i, j \in DOMAIN em[e].calls :
              /\ i < j
              /\ em[e].calls[i].handler = "count"
              /\ em[e].calls[j].handler = "acount"
              /\ em[e].calls[j].result = em[e].calls[i].result + 1

(* ------------------------------------------------------------------ *)
(* C13  Isolation between emissions                                    *)
(* ------------------------------------------------------------------ *)
\* the producer passed no context to emit call e
NoContextGiven(e) == Started_(e) /\ em[e].context \notin {CallerCtx, AliceCtx}

\* the handler "set_ok" was invoked in emission e
SetOkCalled(e) == \E k \in DOMAIN em[e].calls : em[e].calls[k].handler = "set_ok"

\* C13: an emit call that was given no context has a context mapping and a
\* payload mapping no other call has; its counting handlers count from 1,
\* whatever the handlers of earlier or overlapping emissions wrote; its
\* context holds nothing but the count of its own handlers; its payload is
\* the key/value arguments of that call plus what its own handlers wrote,
\* and its filter on payload["ok"] is decided by them alone.
C13_IsolatedEmissions ==
    \A e \in DOMAIN em :
        /\ Started_(e) =>
              /\ \A o \in DOMAIN em \ {e} :
                    Started_(o) => em[o].typed_payload # em[e].typed_payload
              /\ heap[em[e].typed_payload] =
                    IF SetOkCalled(e)
                    THEN ("ok" :> TRUE) @@ em[e].kwargs
                    ELSE em[e].kwargs
              /\ \A k \in DOMAIN em[e].checks :
                    em[e].checks[k].filter = "f_ok" =>
                        (em[e].checks[k].passed
                           <=> \/ Get(em[e].kwargs, "ok", FALSE)
                               \/ SetOkBefore(e, k))
        /\ NoContextGiven(e) =>
              /\ \A o \in DOMAIN em \ {e} :
                    Started_(o) => em[o].context # em[e].context
              /\ \A j \in DOMAIN em[e].calls :
                    em[e].calls[j].handler \in CountHandlers =>
                        em[e].calls[j].result = Cardinality(CountCalls(e, 0, j))
              /\ heap[em[e].context] =
                    IF CountCalls(e, 0, Len(em[e].calls)) = {}
                    THEN EmptyMap
                    ELSE [count |-> Cardinality(CountCalls(e, 0, Len(em[e].calls)))]

\* two emit calls without context whose handlers each wrote a count: the
\* second call started while the first was suspended in its join, and the
\* counting handler of each saw the count 1
C13_Witness ==
    /\ em["e1"].pc = "gather"
    /\ NoContextGiven("e1") /\ NoContextGiven("e2")
    /\ Returned("e2")
    /\ \A e \in TwoEmIds :
          /\ \E k \in DOMAIN em[e].calls :
                /\ em[e].calls[k].handler \in CountHandlers
                /\ em[e].calls[k].result = 1
          /\ SetOkCalled(e)
    /\ "ok" \notin DOMAIN em["e2"].kwargs

(* ------------------------------------------------------------------ *)
(* C14  Caller-supplied context                                        *)
(* ------------------------------------------------------------------ *)
\* the producer passed its own mapping as context to emit call e
ContextGiven(e) == Started_(e) /\ em[e].context = CallerCtx

\* the counts the counting handlers of emission e returned
CountsOf(e) ==
    {em[e].calls[k].result : k \in CountCalls(e, 0, Len(em[e].calls))}

\* C14: when the producer passes a context mapping, that mapping is the one
\* given to every handler and filter that takes a context and the one stored
\* in every Response; the counts its handlers wrote are in the producer's
\* mapping after the call, and a later call that reuses the mapping counts on
\* from them (no two counting calls on the mapping return the same count).
C14_CallerContext ==
    \A e \in DOMAIN em : ContextGiven(e) =>
        /\ \A k \in DOMAIN em[e].calls :
              Len(em[e].calls[k].args) >= 3 => em[e].calls[k].args[3] = CallerCtx
        /\ \A k \in DOMAIN em[e].checks :
              (em[e].checks[k].args # None /\ Len(em[e].checks[k].args) >= 3)
                  => em[e].checks[k].args[3] = CallerCtx
        /\ Returned(e) =>
              \A k \in DOMAIN em[e].result : em[e].result[k].context = CallerCtx
        /\ \A n \in CountsOf(e) : Get(heap[CallerCtx], "count", 0) >= n
        /\ \A o \in DOMAIN em \ {e} :
              ContextGiven(o) => CountsOf(o) \cap CountsOf(e) = {}

(* ------------------------------------------------------------------ *)
(* C15  Empty emission                                                 *)
(* ------------------------------------------------------------------ *)
\* no subscription of emission e can deliver: none is registered under the
\* note's type or an ancestor, or the filter of each considered one rejects
NothingToDeliver(e) ==
    \A p \in DOMAIN Chain(e) : Considered(e, p) =>
        /\ Chain(e)[p][2] # None
        /\ ~FilterRaises(Chain(e)[p][2])
        /\ ~Accepts(e, Chain(e)[p][2])

\* C15: an emit call for which no subscription is registered under the note's
\* type or any ancestor of it (the registry may be empty, as after a clear, or
\* hold subscriptions of other types), or whose applicable filters all reject,
\* returns at once an Emission of length 0: it does not fail and its result is
\* an Emission, not None.
C15_EmptyEmission ==
    \A e \in EmIds : (Started_(e) /\ NothingToDeliver(e)) =>
        /\ Returned(e)
        /\ em[e].error = None
        /\ em[e].result # None
        /\ em[e].result = <<>>
        /\ em[e].calls = <<>>

\* a Foo instance was emitted while the only subscriptions, one of them a
\* handler that raises, were registered under its subtype Bar
C15_Witness ==
    \E e \in EmIds :
        /\ Returned(e)
        /\ em[e].note.cls = "Foo"
        /\ Chain(e) = <<>>
        /\ \E p \in DOMAIN SubsUnder(em[e].registry, "Bar") :
              em[e].registry["Bar"][p][1] = "boom"
        /\ em[e].result = <<>>

(* ------------------------------------------------------------------ *)
(* C16  Abort on failure during traversal                              *)
(* ------------------------------------------------------------------ *)
\* the considered subscription at position p of emission e raises during the
\* traversal: its filter raises, or its filter lets its synchronous handler
\* be called and that handler raises
RaisesAt(e, p) ==
    LET h == Chain(e)[p][1]
        f == Chain(e)[p][2]
    IN /\ Considered(e, p)
       /\ \/ f # None /\ FilterRaises(f)
          \/ /\ Accepts(e, f)
             /\ h = "boom"

\* the callable that raises at position p
RaisedBy(e, p) ==
    IF Chain(e)[p][2] # None /\ FilterRaises(Chain(e)[p][2])
    THEN Chain(e)[p][2]
    ELSE Chain(e)[p][1]

\* the considered subscriptions of emission e up to position p
ConsideredUpTo(e, p) == {q \in DOMAIN Chain(e) : Considered(e, q) /\ q <= p}

\* C16: when a filter or a synchronous handler raises during the traversal of
\* an emission, the emit call fails with that exception and gives the
\* producer no Emission, although Responses may have been collected; the
\* subscriptions after the failing one are neither evaluated nor invoked, and
\* no asynchronous handler of the emission is ever run.
C16_AbortOnFailure ==
    \A e \in EmIds : Started_(e) =>
        \A p \in DOMAIN Chain(e) :
            (RaisesAt(e, p) /\ \A q \in 1..(p - 1) : ~RaisesAt(e, q)) =>
                /\ em[e].pc = "failed"
                /\ em[e].error = RaisedBy(e, p)
                /\ em[e].result = None
                /\ Len(em[e].checks) = Cardinality(ConsideredUpTo(e, p))
                /\ \A k \in DOMAIN em[e].checks :
                       FirstPos(e, em[e].checks[k].handler) <= p
                /\ \A k \in DOMAIN em[e].calls :
                       /\ FirstPos(e, em[e].calls[k].handler) <= p
                       /\ ~iscoroutinefunction(em[e].calls[k].handler)
                /\ em[e].tasks = <<>>

\* a synchronous handler raised after another handler had answered or had
\* been selected and before the last subscription was reached: the emit call
\* failed and holds no Emission
C16_Witness ==
    \E e \in EmIds :
        /\ em[e].pc = "failed"
        /\ em[e].error = "boom"
        /\ em[e].result = None
        /\ Len(em[e].sync_responses) + Len(em[e].async_calls) >= 1
        /\ Len(em[e].checks) < Cardinality(HandlersOn(e))

(* ------------------------------------------------------------------ *)
(* C17  All-or-nothing result                                          *)
(* ------------------------------------------------------------------ *)
\* an asynchronous handler that raises was submitted in emission e
RaisingUnit(e) ==
    \E k \in DOMAIN em[e].async_calls : em[e].async_calls[k][1] = "aboom"

\* what the producer holds of emit call e: nothing while the call is
\* suspended, a complete Emission once it returned, no Emission once it failed
Outcome(e) ==
    /\ em[e].pc \in {"idle", "gather", "returned", "failed"}
    /\ em[e].pc \in {"idle", "gather"} =>
          em[e].result = <<>> /\ em[e].error = None
    /\ em[e].pc = "returned" =>
          /\ em[e].error = None
          /\ em[e].result # None
          /\ Len(em[e].result) = Cardinality(Passing(e))
          /\ \A h \in Passing(e) : Cardinality(ResponsesOf(e, h)) = 1
          /\ \A h \in Passing(e) : h \notin {"boom", "aboom"}
    /\ em[e].pc = "failed" =>
          /\ em[e].error # None
          /\ em[e].result = None
    /\ RaisingUnit(e) => em[e].pc # "returned"

\* C17: an emit call ends either with a complete Emission, one Response for
\* every selected handler, or with an exception and no Emission, never with
\* both or with a part; a call suspended in its join always ends, and when
\* one of its asynchronous handlers raises it ends with the exception,
\* whatever the other handlers of the emission returned.
C17_AllOrNothing ==
    /\ [](\A e \in EmIds : Outcome(e))
    /\ \A e \in EmIds :
          (em[e].pc = "gather") ~> (em[e].pc \in {"returned", "failed"})
    /\ \A e \in EmIds :
          (em[e].pc = "gather" /\ RaisingUnit(e)) ~> (em[e].pc = "failed")

\* an emit call failed with the exception of an asynchronous handler after
\* a synchronous handler had answered and another asynchronous handler had
\* completed
C17_Witness ==
    \E e \in EmIds :
        /\ em[e].pc = "failed"
        /\ em[e].error = "aboom"
        /\ em[e].result = None
        /\ Len(em[e].sync_responses) >= 1
        /\ \E k \in DOMAIN em[e].tasks : em[e].tasks[k].status = "done"

(* ------------------------------------------------------------------ *)
(* C18  Registration is append-only                                    *)
(* ------------------------------------------------------------------ *)
\* registry new is registry old with (h, f) added at the end of the list of
\* t, every entry of old in its place
AppendedTo(old, new, t, h, f) ==
    /\ SubsUnder(new, t) = SubsUnder(old, t) \o <<<<h, f>>>>
    /\ \A u \in NoteTypes \ {t} : SubsUnder(new, u) = SubsUnder(old, u)

\* C18: every call subscribe(T, f)(h) is possible, whatever the registry
\* holds, and leaves the registry as it was with (h, f) added at the end of
\* the list of T, also when that list already holds (h, f): no entry of T is
\* removed or moved and the list of every other type is unchanged.
C18_AppendOnly ==
    /\ [](\A t \in NoteTypes, h \in Handlers, f \in Filters \cup {None} :
             ENABLED subscribe(t, h, f))
    /\ [][\A t \in NoteTypes, h \in Handlers, f \in Filters \cup {None} :
             subscribe(t, h, f) =>
                 AppendedTo(subscriptions, subscriptions', t, h, f)]_vars

\* the same (handler, filter) pair was registered twice under one type: the
\* list holds both entries
C18_Witness ==
    \E t \in NoteTypes :
        /\ Len(SubsUnder(subscriptions, t)) = 2
        /\ subscriptions[t][1] = subscriptions[t][2]

(* ------------------------------------------------------------------ *)
(* C19  clear is process-wide                                          *)
(* ------------------------------------------------------------------ *)
\* C19: clear_subscriptions leaves the registry without a subscription for
\* any note type; an emit call made while the registry holds none returns an
\* Emission without Responses, whatever was registered before the clear; and
\* an emit call delivers the subscriptions its registry holds, those made
\* after a clear included, each passing handler being invoked exactly once.
C19_ClearIsGlobal ==
    /\ [][clear_subscriptions =>
             \A t \in NoteTypes : SubsUnder(subscriptions', t) = <<>>]_vars
    /\ [](\A e \in DOMAIN em :
             (Started_(e) /\ \A t \in NoteTypes : SubsUnder(em[e].registry, t) = <<>>)
                 => (Returned(e) /\ em[e].result = <<>> /\ em[e].calls = <<>>))
    /\ [](\A e \in DOMAIN em : Returned(e) =>
             /\ \A h \in Passing(e) : InvokedOnce(e, h)
             /\ \A k \in DOMAIN em[e].result : em[e].result[k].handler \in Passing(e))

\* the first emit call delivered a subscription made under Foo; the registry
\* was then cleared and a handler subscribed under Bar; the second emit call,
\* of a Bar instance, was delivered to that handler only
C19_Witness ==
    /\ Returned("e1") /\ Returned("e2")
    /\ Len(em["e1"].result) >= 1
    /\ SubsUnder(em["e1"].registry, "Foo") # <<>>
    /\ em["e2"].note.cls = "Bar"
    /\ SubsUnder(em["e2"].registry, "Foo") = <<>>
    /\ Len(SubsUnder(em["e2"].registry, "Bar")) = 1
    /\ Len(em["e2"].result) = 1
    /\ em["e2"].result[1].handler = em["e2"].registry["Bar"][1][1]

(* ------------------------------------------------------------------ *)
(* C20  Both registration forms are equivalent                         *)
(* ------------------------------------------------------------------ *)
\* C20: a registration through the module-level subscribe is the same step
\* as the registration of the same (type, handler, filter) through
\* Dispatcher.subscribe: the entry is appended to the list of the type in the
\* registry emit reads and no other registry is written; that other registry
\* stays empty; clear_subscriptions leaves no entry of either form; and an
\* emit call invokes each passing handler of its registry exactly once,
\* whichever form registered it.
C20_FormsEquivalent ==
    /\ [][\A t \in NoteTypes, h \in Handlers, f \in Filters \cup {None} :
             /\ core_subscribe(t, h, f) <=> subscribe(t, h, f)
             /\ core_subscribe(t, h, f) =>
                   /\ AppendedTo(subscriptions, subscriptions', t, h, f)
                   /\ core_subscriptions' = core_subscriptions]_vars
    /\ [][clear_subscriptions =>
             /\ \A t \in NoteTypes : SubsUnder(subscriptions', t) = <<>>
             /\ \A t \in NoteTypes : SubsUnder(core_subscriptions', t) = <<>>]_vars
    /\ [](\A t \in NoteTypes : SubsUnder(core_subscriptions, t) = <<>>)
    /\ [](\A e \in EmIds : Returned(e) =>
             /\ \A h \in Passing(e) : InvokedOnce(e, h)
             /\ Len(em[e].result) = Cardinality(Passing(e)))

\* an Emission with the Response of a handler registered through
\* Dispatcher.subscribe and the Response of a handler registered through the
\* module-level subscribe
C20_Witness ==
    \E e \in EmIds :
        /\ Returned(e)
        /\ \E h \in {r[1] : r \in DispatcherRegistrations} : InvokedOnce(e, h)
        /\ \E h \in {r[1] : r \in CoreRegistrations} : InvokedOnce(e, h)
        /\ Len(em[e].result) = 2

(* ------------------------------------------------------------------ *)
(* C21  Arity defects surface at dispatch                              *)
(* ------------------------------------------------------------------ *)
\* a declared parameter count the dispatcher has a prefix for
ArityInRange(n) == n \in 1..3

\* C21: subscribe never rejects a handler or a filter because of its declared
\* parameter count (it is possible in every state, for every callable), and a
\* handler or filter declared with no parameter or with more than three is
\* never invoked successfully: the emission that reaches its subscription
\* does not return.
C21_ArityDefects ==
    /\ \A t \in NoteTypes, h \in Handlers, f \in Filters \cup {None} :
           ENABLED subscribe(t, h, f)
    /\ \A e \in EmIds :
           /\ \A k \in DOMAIN em[e].calls :
                  ArityInRange(HandlerArity(em[e].calls[k].handler))
           /\ \A k \in DOMAIN em[e].checks :
                  LET c == em[e].checks[k]
                  IN /\ (c.filter # None /\ ~ArityInRange(FilterArity(c.filter)))
                         => (~c.passed /\ ~Returned(e))
                     /\ (c.passed /\ ~ArityInRange(HandlerArity(c.handler)))
                         => ~Returned(e)

(* ------------------------------------------------------------------ *)
(* C22  Deduplication precedes filtering                               *)
(* ------------------------------------------------------------------ *)
\* the filter checks of emission e that were made for handler h
ChecksOf(e, h) == {k \in DOMAIN em[e].checks : em[e].checks[k].handler = h}

\* C22: of the subscriptions of one handler that are reachable from the
\* note's type, only the first in traversal order is considered: the handler
\* is considered once, with the filter of that first subscription, the
\* considerations follow the traversal order, and that filter alone decides
\* whether the handler runs.  Every later subscription of the handler is
\* skipped, also when the first one's filter rejected and the later one has
\* no filter or a filter that accepts: the handler is then neither called nor
\* scheduled and has no Response.
C22_DedupBeforeFilter ==
    \A e \in EmIds : Started_(e) =>
        /\ \A h \in HandlersOn(e) :
               /\ Cardinality(ChecksOf(e, h)) = 1
               /\ \A k \in ChecksOf(e, h) :
                      /\ em[e].checks[k].filter = Chain(e)[FirstPos(e, h)][2]
                      /\ em[e].checks[k].passed
                             <=> (CallsOf(e, h) \cup UnitsOf(e, h) # {})
        /\ \A k1, k2 \in DOMAIN em[e].checks : k1 < k2 =>
               FirstPos(e, em[e].checks[k1].handler)
                   < FirstPos(e, em[e].checks[k2].handler)
        /\ \A p \in DOMAIN Chain(e) :
               LET h == Chain(e)[p][1]
               IN (~Considered(e, p) /\ ~Accepts(e, Chain(e)[FirstPos(e, h)][2]))
                     => /\ CallsOf(e, h) = {}
                        /\ UnitsOf(e, h) = {}
                        /\ Returned(e) => ResponsesOf(e, h) = {}

\* a handler subscribed to the note's type behind a filter that rejects and
\* to an ancestor without filter: the emission returned without calling it
C22_Witness ==
    \E e \in EmIds :
        /\ Returned(e)
        /\ ~Accepts(e, "f_ok")
        /\ SubsUnder(em[e].registry, em[e].note.cls) = <<<<"sync1", "f_ok">>>>
        /\ \E p, q \in DOMAIN Chain(e) :
               /\ p < q
               /\ Considered(e, p)
               /\ Chain(e)[p] = <<"sync1", "f_ok">>
               /\ Chain(e)[q] = <<"sync1", None>>
        /\ Len(em[e].checks) = 1
        /\ em[e].calls = <<>>
        /\ em[e].result = <<>>

(* ------------------------------------------------------------------ *)
(* C23  The synchronous pass is atomic with respect to other emissions *)
(* ------------------------------------------------------------------ *)
\* emission e is between the start of its traversal and the end of its last
\* synchronous handler
InSyncPass(e) == em[e].pc = "traversal"

\* what has run for emission e: its filter checks, the calls of its
\* handlers, the state of its asynchronous units
RanFor(e) == <<em[e].checks, em[e].calls, em[e].tasks>>

\* C23: while an emission is between the start of its traversal and the end
\* of its last synchronous handler, no step runs a filter or a handler of
\* another emission; a step runs something of another emission only while
\* every emission in progress is suspended in its asynchronous join.
C23_AtomicSyncPass ==
    [][\A e, x \in DOMAIN em :
          (e # x /\ RanFor(x)' # RanFor(x))
              => /\ ~InSyncPass(e)
                 /\ em[e].pc \in {"idle", "gather", "returned", "failed"}]_vars

\* the first emission, which called a synchronous handler, is suspended in
\* its join with a unit not yet started; the second one has meanwhile
\* called its synchronous handler and is still in its traversal
C23_Witness ==
    /\ em["e1"].pc = "gather"
    /\ Len(em["e1"].calls) = 1
    /\ em["e1"].tasks[1].status = "pending"
    /\ em["e2"].pc = "traversal"
    /\ Len(em["e2"].calls) = 1

(* ------------------------------------------------------------------ *)
(* C24  Registration during traversal                                  *)
(* ------------------------------------------------------------------ *)
\* the traversal of emission e is over
TraversalOver(e) == em[e].pc \in {"gather", "returned", "failed"}

\* C24: a subscribe call that takes effect between two iterations of an
\* emission's traversal never makes the emission fail, never causes a
\* subscription that existed before the emission began to be skipped (the
\* first subscription of a handler in the registry the emission started
\* with, its filter accepting, has its handler called or scheduled once the
\* traversal is over), and never causes a handler to be invoked twice in the
\* emission.
C24_LateRegistration ==
    \A e \in EmIds : Started_(e) =>
        /\ em[e].pc # "failed"
        /\ TraversalOver(e) =>
               \A p \in DOMAIN Chain(e) :
                   (Considered(e, p) /\ Accepts(e, Chain(e)[p][2]))
                       => CallsOf(e, Chain(e)[p][1])
                              \cup UnitsOf(e, Chain(e)[p][1]) # {}
        /\ \A h \in Handlers :
               /\ Cardinality(CallsOf(e, h)) <= 1
               /\ Cardinality(UnitsOf(e, h)) <= 1
               /\ Returned(e) => Cardinality(ResponsesOf(e, h)) <= 1

(* ------------------------------------------------------------------ *)
(* C25  Emission does not change the registry                          *)
(* ------------------------------------------------------------------ *)
\* the handlers emission e has to deliver to, by the registry as it is now:
\* the first subscription of each handler along the chain of the note's
\* type, when its filter accepts
DueNow(e) ==
    LET chain == Applicable(subscriptions, em[e].note.cls)
    IN {chain[p][1] : p \in {q \in DOMAIN chain :
            /\ \A r \in 1..(q - 1) : chain[r][1] # chain[q][1]
            /\ Accepts(e, chain[q][2])}}

\* C25: when no filter or handler calls subscribe or clear_subscriptions, no
\* step of an emit call, successful or failed, changes the registry: as
\* long as the call's outcome is held, the registry is the one the call
\* started with.  So the subscriptions that are in the registry are
\* delivered to every emission that returns, the first and any later one.
C25_RegistryUnchanged ==
    /\ [][em' # em => subscriptions' = subscriptions]_vars
    /\ [](\A e \in DOMAIN em : Started_(e) =>
             /\ em[e].registry = subscriptions
             /\ Returned(e) =>
                    \A h \in DueNow(e) : Cardinality(ResponsesOf(e, h)) = 1)

\* a first emit call failed in the handler that raises, a second one of the
\* same note type returned: the synchronous handler subscribed once was
\* called in both, and the registry still holds both subscriptions
C25_Witness ==
    /\ em["e1"].pc = "failed"
    /\ em["e2"].pc = "returned"
    /\ CallsOf("e1", "sync1") # {}
    /\ ResponsesOf("e2", "sync1") # {}
    /\ TotalSubs(subscriptions) = 2
    /\ em["e1"].registry = subscriptions
    /\ em["e2"].registry = subscriptions

(* ------------------------------------------------------------------ *)
(* C26  Asynchronous handlers start after the whole traversal          *)
(* ------------------------------------------------------------------ *)
\* the handlers of SpecAfter that are declared with async def
DeclaredAsync == {"aset_ok", "acount"}

\* the calls of emission e that are calls of asynchronous handlers, of
\* synchronous handlers
AsyncCallsOf(e) ==
    {k \in DOMAIN em[e].calls : em[e].calls[k].handler \in DeclaredAsync}
SyncCallsOf(e) == DOMAIN em[e].calls \ AsyncCallsOf(e)

\* C26: within one emission every filter evaluation and every call of a
\* synchronous handler happens before any asynchronous handler begins: in
\* the order of the calls no asynchronous handler comes before a synchronous
\* one, and once an asynchronous handler has begun no filter is evaluated
\* and no synchronous handler is called.  So what a filter or a synchronous
\* handler reads is not what an asynchronous handler of the emission wrote:
\* the filter on payload["ok"] accepts exactly when the producer passed
\* ok=True and the synchronous counting handler counts from zero.  And when
\* a synchronous handler raised, no asynchronous handler of the emission has
\* run, those visited before the failure included.
C26_AsyncAfterTraversal ==
    /\ [](\A e \in EmIds : Started_(e) =>
             /\ \A i \in AsyncCallsOf(e), j \in SyncCallsOf(e) : j < i
             /\ AsyncCallsOf(e) # {} => TraversalOver(e)
             /\ \A k \in DOMAIN em[e].checks :
                    em[e].checks[k].filter = "f_ok" =>
                        (em[e].checks[k].passed
                            <=> Get(em[e].kwargs, "ok", FALSE))
             /\ \A k \in DOMAIN em[e].calls :
                    em[e].calls[k].handler = "count" => em[e].calls[k].result = 1
             /\ (em[e].pc = "failed" /\ em[e].error = "boom")
                    => (AsyncCallsOf(e) = {} /\ em[e].tasks = <<>>))
    /\ [][\A e \in EmIds :
             (AsyncCallsOf(e) # {} /\ em[e].pc' # "idle")
                 => /\ em[e].checks' = em[e].checks
                    /\ SyncCallsOf(e)' = SyncCallsOf(e)]_vars

\* the asynchronous handlers that write payload["ok"] and count in the
\* context were registered before the synchronous counting handler: the
\* emission returned, the synchronous handler counted 1 and was called
\* first, the asynchronous one counted 2, and payload["ok"] is set
C26_Witness ==
    \E e \in EmIds :
        /\ Returned(e)
        /\ em[e].registry =
               ("Foo" :> <<<<"aset_ok", None>>, <<"acount", None>>,
                           <<"count", None>>>>)
        /\ em[e].kwargs = EmptyMap
        /\ [k \in DOMAIN em[e].calls |-> em[e].calls[k].handler]
               = <<"count", "aset_ok", "acount">>
        /\ em[e].calls[1].result = 1
        /\ em[e].calls[3].result = 2
        /\ Get(heap[em[e].typed_payload], "ok", FALSE)

(* ------------------------------------------------------------------ *)
(* C27  Deduplication state is per emission                            *)
(* ------------------------------------------------------------------ *)
\* C27: the set of handlers already considered belongs to one emit call.  Of
\* two emissions that overlap in time or follow each other, each considers
\* every handler subscribed along the chain of its note's type exactly once,
\* whatever the other emission has invoked: its set of considered handlers
\* is the set of those handlers, each has one filter check in it, and a
\* handler whose check passed is called or scheduled exactly once and has
\* exactly one Response when the emission has returned.
C27_SeenPerEmission ==
    \A e \in TwoEmIds : Started_(e) =>
        /\ em[e].seen_handlers = HandlersOn(e)
        /\ \A h \in HandlersOn(e) :
               /\ Cardinality(ChecksOf(e, h)) = 1
               /\ \A k \in ChecksOf(e, h) : em[e].checks[k].passed =>
                      /\ Cardinality(CallsOf(e, h) \cup UnitsOf(e, h)) >= 1
                      /\ Cardinality(CallsOf(e, h)) <= 1
                      /\ Cardinality(UnitsOf(e, h)) <= 1
                      /\ Returned(e) => InvokedOnce(e, h)

\* the first emission is suspended in its join, its synchronous handler
\* called and its asynchronous one not yet started; the second emission,
\* made meanwhile with the same two subscriptions, has called the
\* same synchronous handler and scheduled the same asynchronous one
C27_Witness ==
    /\ em["e1"].pc = "gather"
    /\ em["e2"].pc = "gather"
    /\ em["e1"].tasks[1].status = "pending"
    /\ em["e1"].registry = em["e2"].registry
    /\ \E h \in {"set_ok", "count"}, a \in {"acount", "async1"} :
           /\ em["e1"].seen_handlers = {h, a}
           /\ em["e2"].seen_handlers = {h, a}
           /\ CallsOf("e1", h) # {} /\ CallsOf("e2", h) # {}
           /\ UnitsOf("e1", a) # {} /\ UnitsOf("e2", a) # {}

(* ------------------------------------------------------------------ *)
(* C28  The handlers of an emission are fixed by its traversal         *)
(* ------------------------------------------------------------------ *)
\* the handlers emission e selected: the first subscription of each handler
\* along the chain, in the registry its traversal saw, its filter accepting
Selected(e) ==
    {h \in HandlersOn(e) : Accepts(e, Chain(e)[FirstPos(e, h)][2])}

\* C28: a subscribe or clear_subscriptions call made while an emission is
\* suspended in its join changes neither which handlers of the emission run
\* nor its Responses.  The asynchronous units are those of the handlers
\* selected by the registry the traversal saw, the step that changes the
\* registry leaves them as they are, every one of them has run and has its
\* Response when the emission has returned, and a handler that was not
\* selected (one registered during the join) is not called and has no
\* Response.
C28_FixedByTraversal ==
    /\ [](\A e \in EmIds : Started_(e) =>
             /\ {em[e].async_calls[k][1] : k \in DOMAIN em[e].async_calls}
                    = {h \in Selected(e) : iscoroutinefunction(h)}
             /\ \A h \in Handlers \ Selected(e) :
                    CallsOf(e, h) = {} /\ UnitsOf(e, h) = {}
             /\ Returned(e) =>
                    /\ \A h \in Selected(e) : InvokedOnce(e, h)
                    /\ \A h \in Handlers \ Selected(e) : ResponsesOf(e, h) = {}
                    /\ Len(em[e].result) = Cardinality(Selected(e)))
    /\ [][subscriptions' # subscriptions => em' = em]_vars

\* the emission selected a synchronous and an asynchronous handler; while
\* it was suspended the registry was cleared and another asynchronous
\* handler registered; it returned the two Responses of the handlers it had
\* selected
C28_Witness ==
    \E e \in EmIds :
        /\ Returned(e)
        /\ Selected(e) = {"sync1", "async1"}
        /\ subscriptions = ("Foo" :> <<<<"async3", None>>>>)
        /\ [k \in DOMAIN em[e].result |-> em[e].result[k].handler]
               = <<"sync1", "async1">>

====
